---------------------------- MODULE Spec2Model ----------------------------
(***************************************************************************)
(* Plugin lifecycle / lazy-secret manager (PluginManager) and the          *)
(* streaming render buffer (GlowStreamBuffer) of emblem-enhanced.          *)
(*                                                                         *)
(* The runtime is one cooperative event loop: an async method runs         *)
(* atomically from one `await` to the next.  Every action below is one     *)
(* such run-to-next-await segment of one in-flight method call.  Where the *)
(* code that follows an await touches nothing shared (it only moves on to  *)
(* the next await) the two segments are one action.                        *)
(***************************************************************************)
EXTENDS Integers, Sequences, FiniteSets, TLC

VARIABLES
    modStatus,        \* environment: what `await import(spec.mod)` yields, per registry index
    customData,       \* environment: parsed content of ~/.emblemai-plugins.json
    pluginSpecsSet,   \* this._pluginSpecs has been assigned (loadAll has started)
    plugins,          \* this.plugins: Map name -> {plugin, enabled, toolCount}, in insertion order
    resolvedSecrets,  \* this._resolvedSecrets: secret name -> plaintext (Undefined when absent)
    clientActive,     \* names the chat client currently holds (client.use / client.unuse)
    wrapped,          \* per registry index: _wrapForLazySecrets has replaced the executors
    pendingOf,        \* per registry index: the pendingSecrets the wrappers close over
    resolved,         \* per registry index: the wrappers' shared `resolved` flag
    la,               \* the loadAll call: position and locals
    calls,            \* calls of wrapped executors (lazySecretResolver): position and locals
    reloads,          \* reloadPluginWithSecret calls: position and locals
    decryptCalls,     \* history: number of decrypt(...) invocations per secret name
    lazyOps,          \* history: per registry index, what lazy resolution invoked
    ev,               \* history: the call that returned in the step just taken
    op,               \* the register / unregister / enable / disable call in flight
    text,             \* environment: the text streamed into the GlowStreamBuffer
    pushed,           \* number of characters of text pushed so far
    buffer,           \* this.buffer
    inCodeBlock,      \* this.inCodeBlock
    codeBlockFence,   \* this.codeBlockFence
    lastRenderedLength, \* this.lastRenderedLength
    ret,              \* what the last push / flush returned (Null for null)
    units             \* history: the spans of text returned so far, in order

pmVars == <<modStatus, customData, pluginSpecsSet, plugins, resolvedSecrets,
            clientActive, wrapped, pendingOf, resolved, la, calls, reloads,
            decryptCalls, lazyOps, ev>>

glowVars == <<text, pushed, buffer, inCodeBlock, codeBlockFence, lastRenderedLength,
              ret, units>>

vars == <<pmVars, op, glowVars>>

-----------------------------------------------------------------------------
(* Bounds of the model. *)

MaxCalls == 2
MaxReloads == 2
MaxTokens == 4
MaxOps == 2

CallIds == 1..MaxCalls
ReloadIds == 1..MaxReloads

-----------------------------------------------------------------------------
(* Static data. *)

\* loadAll's registry, in order.
PluginSpecs ==
    << [mod |-> "@hustle/plugin-bankr",   factory |-> "createBankrPlugin",   configKey |-> "bankr"],
       [mod |-> "@hustle/plugin-a2a",     factory |-> "createA2APlugin",     configKey |-> "a2a"],
       [mod |-> "@hustle/plugin-acp",     factory |-> "createACPPlugin",     configKey |-> "acp"],
       [mod |-> "@hustle/plugin-elizaos", factory |-> "createElizaOSPlugin", configKey |-> "elizaos"],
       [mod |-> "@hustle/plugin-bridge",  factory |-> "createBridgePlugin",  configKey |-> "bridge"] >>

SpecIdx == 1..Len(PluginSpecs)

\* The plugin packages are external.  In the deployments modelled the bankr
\* package is installed, with or without its factory export, the elizaos
\* package is installed or not, and the other three imports always fail.
Bankr == 1
Eliza == 4

ModStatusChoices(i) ==
    IF i = Bankr THEN {"nofactory", "ok"}
    ELSE IF i = Eliza THEN {"missing", "ok"}
    ELSE {"missing"}

\* A dot path is the sequence of its characters' groups: "." separates parts.
\* `mod.secrets || mod.SECRETS || []` of each package.
ModSecrets(i) ==
    IF i = Bankr
      THEN << [name |-> "apiKey",    label |-> "API key",    configPath |-> <<"bankrApi", ".", "apiKey">>],
              [name |-> "apiSecret", label |-> "API secret", configPath |-> <<"bankrApi", ".", "secret">>] >>
    ELSE IF i = Eliza
      THEN << [name |-> "apiKey",    label |-> "API key",    configPath |-> <<"token">>] >>
    ELSE << >>

SecretNames == {"apiKey", "apiSecret", "other"}

\* What the package's factory returns: name, version, tools, executors.
PluginNameOf(i) ==
    IF i = Bankr THEN "hustle-bankr"
    ELSE IF i = Eliza THEN "hustle-elizaos"
    ELSE IF i = 2 THEN "hustle-a2a"
    ELSE IF i = 3 THEN "hustle-acp"
    ELSE "hustle-bridge"

ToolsOf(i) == IF i = Bankr THEN <<"swap", "balance">> ELSE <<"send">>

\* Tool names that have an executor in the factory's result.
ExecutorsOf(i) == IF i = Bankr THEN {"swap"} ELSE {"send"}

\* opts.credentials.secrets: names that have a stored ciphertext.
StoredCiphertexts == {"apiKey", "apiSecret"}

Undefined == "undefined"

\* Plaintexts: promptPassword values (never empty, commands.js) and what decrypt yields.
PlainValues == {"q"}
DecryptedValue(s) == "p"

\* JS truthiness of a cache slot.
Truthy(v) == v # Undefined /\ v # ""


-----------------------------------------------------------------------------
(* Configuration objects.  A configuration is the set of its leaves         *)
(* <<path, value>>, a path being the sequence of property names from the    *)
(* root.                                                                    *)

\* dotPath.split('.')
RECURSIVE SplitFrom(_, _, _)
SplitFrom(dotPath, k, cur) ==
    IF k > Len(dotPath) THEN <<cur>>
    ELSE IF dotPath[k] = "." THEN <<cur>> \o SplitFrom(dotPath, k + 1, <<>>)
    ELSE SplitFrom(dotPath, k + 1, Append(cur, dotPath[k]))

SplitDots(dotPath) == SplitFrom(dotPath, 1, <<>>)

IsPrefix(a, b) == Len(a) <= Len(b) /\ SubSeq(b, 1, Len(a)) = a

\* _setConfigPath: every non-object on the way down is replaced by {}, and the
\* last property is overwritten with the value.
SetConfigPath(config, dotPath, value) ==
    LET parts == SplitDots(dotPath)
        kept  == { leaf \in config :
                     ~IsPrefix(leaf[1], parts) /\ ~IsPrefix(parts, leaf[1]) }
    IN  kept \cup { <<parts, value>> }

\* What a configuration holds at a dot path (Undefined when it is not a leaf).
ConfigAt(config, dotPath) ==
    LET parts == SplitDots(dotPath)
        hits  == { leaf \in config : leaf[1] = parts }
    IN  IF hits = {} THEN Undefined ELSE (CHOOSE leaf \in hits : TRUE)[2]

\* { ...config[spec.configKey] } with the chat client injected and, for
\* elizaos, the default masq sub-configuration.  The caller's config is {}.
BaseConfig(i) ==
    LET withClient == SetConfigPath({}, <<"hustleClient">>, "client")
    IN  IF PluginSpecs[i].configKey = "elizaos"
          THEN SetConfigPath(SetConfigPath(withClient, <<"masq", ".", "enabled">>, "true"),
                             <<"masq", ".", "port">>, "3001")
          ELSE withClient

\* The loop that injects every resolved secret of a module into a configuration.
RECURSIVE InjectResolved(_, _, _, _)
InjectResolved(config, decls, k, cache) ==
    IF k > Len(decls) THEN config
    ELSE IF Truthy(cache[decls[k].name])
      THEN InjectResolved(SetConfigPath(config, decls[k].configPath, cache[decls[k].name]),
                          decls, k + 1, cache)
      ELSE InjectResolved(config, decls, k + 1, cache)

\* loadAll's partition: the declarations that stay pending.
RECURSIVE PendingSecrets(_, _, _)
PendingSecrets(decls, k, cache) ==
    IF k > Len(decls) THEN <<>>
    ELSE IF ~Truthy(cache[decls[k].name]) /\ decls[k].name \in StoredCiphertexts
      THEN <<decls[k]>> \o PendingSecrets(decls, k + 1, cache)
      ELSE PendingSecrets(decls, k + 1, cache)

-----------------------------------------------------------------------------
(* Plugin instances and the registration map. *)

\* The object a package's factory returns for a configuration.  `id` tells
\* the objects apart: who constructed it.
MakePlugin(id, i, config) ==
    [id |-> id, name |-> PluginNameOf(i), version |-> "1.0.0",
     tools |-> ToolsOf(i), execs |-> ExecutorsOf(i), cfg |-> config]

NoPlugin ==
    [id |-> <<"none", 0>>, name |-> "", version |-> "", tools |-> <<>>, execs |-> {}, cfg |-> {}]

GodModePlugin ==
    [id |-> <<"god", 0>>, name |-> "god-mode", version |-> "1.0.0",
     tools |-> <<"execute_javascript", "build_plugin", "install_plugin",
                 "uninstall_plugin", "list_plugins", "capture_terminal">>,
     execs |-> {"execute_javascript", "build_plugin", "install_plugin",
                "uninstall_plugin", "list_plugins", "capture_terminal"},
     cfg |-> {}]

Names(m) == { m[k].name : k \in 1..Len(m) }

MapHas(m, name) == name \in Names(m)

MapGet(m, name) == m[CHOOSE k \in 1..Len(m) : m[k].name = name]

\* A map that appends on every set.
MapSetAppend(m, name, entry) == Append(m, entry)

\* Map.set: an existing key keeps its position, a new key goes last.
MapSet(m, name, entry) ==
    IF MapHas(m, name)
      THEN [k \in 1..Len(m) |-> IF m[k].name = name THEN entry ELSE m[k]]
      ELSE Append(m, entry)

\* Map.delete
MapDelete(m, name) == SelectSeq(m, LAMBDA e : e.name # name)

\* The entry register stores.
Entry(plugin, enabled) ==
    [name |-> plugin.name, plugin |-> plugin, enabled |-> enabled,
     toolCount |-> Len(plugin.tools)]

\* name.startsWith('_')
InternalNames == {"_internal"}
StartsWithUnderscore(name) == name \in InternalNames

\* list()
List(m) ==
    LET shown == SelectSeq(m, LAMBDA e : ~StartsWithUnderscore(e.name))
    IN  [k \in 1..Len(shown) |->
            [name |-> shown[k].name,
             version |-> IF shown[k].plugin.version = "" THEN "0.0.0"
                         ELSE shown[k].plugin.version,
             enabled |-> shown[k].enabled, toolCount |-> shown[k].toolCount]]


NoEntry == [name |-> "", plugin |-> NoPlugin, enabled |-> FALSE, toolCount |-> 0]

EntryOrNone(m, name) == IF MapHas(m, name) THEN MapGet(m, name) ELSE NoEntry

-----------------------------------------------------------------------------
(* Persisted custom plugins. *)

\* A restore that ignores the persisted flag.
StoredEnabledAlways(stored) == TRUE

\* stored.enabled !== false
StoredEnabled(stored) == stored.enabled # "false"

\* !stored || !stored.name
Malformed(stored) == stored.name = ""

CustomPlugin(k, stored) ==
    [id |-> <<"custom", k>>, name |-> stored.name,
     version |-> IF stored.version = "" THEN "1.0.0" ELSE stored.version,
     tools |-> stored.tools, execs |-> {}, cfg |-> {}]

\* Index of the first well-formed entry at or after k (Len + 1 when none).
RECURSIVE NextStored(_, _)
NextStored(data, k) ==
    IF k > Len(data) THEN k
    ELSE IF Malformed(data[k]) THEN NextStored(data, k + 1)
    ELSE k

CustomDataChoices ==
    { << [name |-> "", version |-> "", tools |-> <<>>, enabled |-> "absent"],
         [name |-> "my-tools", version |-> "", tools |-> <<"hello">>, enabled |-> "absent"],
         [name |-> "my-off", version |-> "2.0.0", tools |-> <<>>, enabled |-> "false"] >> }

-----------------------------------------------------------------------------
(* Initial state: a newly constructed PluginManager, nothing called yet. *)

\* loadAll's position.  loaded: the registry entries whose register has
\* completed, in that order; failed: the registry entries whose import failed,
\* whose module has no factory function or whose factory threw; threw: the
\* objects whose activation the chat client refused during loadAll.
IdleLoad ==
    [pc |-> "idle", i |-> 0, plugin |-> NoPlugin, pending |-> <<>>, k |-> 0,
     loaded |-> <<>>, failed |-> {}, threw |-> {}]

NoId == <<"none", 0>>

\* A call of a wrapped executor.  args: its argument; first: it found
\* `resolved` unset and runs the resolution; overlap: it was made while the
\* resolution was in flight; others: the calls of the same plugin's wrappers
\* made while this resolution was in flight; before: the registration under
\* the plugin's name when it was made; by, res, out: the object whose executor
\* answered, what came back, and the argument that executor was given.
IdleCall ==
    [pc |-> "idle", i |-> 0, tool |-> "", args |-> 0, k |-> 0, cfg |-> {},
     plugin |-> NoPlugin, first |-> FALSE, overlap |-> FALSE, others |-> 0,
     before |-> NoEntry, decrypted |-> 0, threw |-> FALSE, ok |-> FALSE,
     by |-> NoId, res |-> "", out |-> 0]

\* A reloadPluginWithSecret call.  before: the registration under pluginName
\* when it was made; listBefore: list() when it was made; cached: the secret names resolved once it has written the
\* cache; found: a module declaring secretName was imported; failed:
\* construction failed (no factory function, or the factory threw).
IdleReload ==
    [pc |-> "idle", pluginName |-> "", secretName |-> "", plaintext |-> "",
     id |-> 0, i |-> 0, cfg |-> {}, plugin |-> NoPlugin, before |-> NoEntry,
     listBefore |-> <<>>, cached |-> {}, found |-> FALSE, failed |-> FALSE,
     ret |-> FALSE]

NoLazyOps == [decrypts |-> 0, unregisters |-> 0, registers |-> 0]

\* A register, unregister, enable or disable call.  plugin, wanted: register's
\* arguments; name: the name the call is about; before: the registration
\* under that name when the call was made; mapBefore: the registrations when
\* it was made; called: it called client.use or client.unuse; threw: that
\* call threw; ret: what the call resolved to; n: the calls made so far;
\* prev: when the call before this one was a disable, its name and the
\* registrations before and after it; said: what /plugin reports for an enable
\* or disable made through it.
NoPrev == [name |-> "", before |-> <<>>, after |-> <<>>]

IdleOp ==
    [pc |-> "idle", kind |-> "", name |-> "", plugin |-> NoPlugin, wanted |-> FALSE,
     before |-> NoEntry, mapBefore |-> <<>>, called |-> FALSE, threw |-> FALSE,
     ret |-> Undefined, n |-> 0, prev |-> NoPrev, said |-> ""]

NoEvent == [kind |-> "none", call |-> IdleCall, reload |-> IdleReload, api |-> IdleOp]

CallEvent(call) == [kind |-> "call", call |-> call, reload |-> IdleReload, api |-> IdleOp]

ReloadEvent(rl) == [kind |-> "reload", call |-> IdleCall, reload |-> rl, api |-> IdleOp]

ApiEvent(o) == [kind |-> "api", call |-> IdleCall, reload |-> IdleReload, api |-> o]

\* What stays of a call once it has returned.
ReturnedCall == [IdleCall EXCEPT !.pc = "done"]

ReturnedReload == [IdleReload EXCEPT !.pc = "done"]

\* The null a push or flush returns.
Null == <<"null">>

Init ==
    /\ modStatus \in { f \in [SpecIdx -> {"missing", "nofactory", "ok"}] :
                         \A i \in SpecIdx : f[i] \in ModStatusChoices(i) }
    /\ customData \in CustomDataChoices
    /\ pluginSpecsSet = FALSE
    /\ plugins = <<>>
    /\ resolvedSecrets = [s \in SecretNames |-> Undefined]
    /\ clientActive = {}
    /\ wrapped = [i \in SpecIdx |-> FALSE]
    /\ pendingOf = [i \in SpecIdx |-> <<>>]
    /\ resolved = [i \in SpecIdx |-> FALSE]
    /\ la = IdleLoad
    /\ calls = [c \in CallIds |-> IdleCall]
    /\ reloads = [r \in ReloadIds |-> IdleReload]
    /\ decryptCalls = [s \in SecretNames |-> 0]
    /\ lazyOps = [i \in SpecIdx |-> NoLazyOps]
    /\ ev = NoEvent
    /\ op = IdleOp
    /\ text = <<>>
    /\ pushed = 0
    /\ buffer = <<>>
    /\ inCodeBlock = FALSE
    /\ codeBlockFence = <<>>
    /\ lastRenderedLength = 0
    /\ ret = Null
    /\ units = <<>>

-----------------------------------------------------------------------------
(* loadAll *)

\* Where loadAll goes once registry entry i is dealt with: the next import, or
\* the import of god-mode.
LoadAllAdvance(i) ==
    IF i < Len(PluginSpecs)
      THEN [IdleLoad EXCEPT !.pc = "import", !.i = i + 1]
      ELSE [IdleLoad EXCEPT !.pc = "god"]

\* loadAll's position moves on; what it has done so far stays.
LoadAllAt(next, l, f, t) == [next EXCEPT !.loaded = l, !.failed = f, !.threw = t]

\* A loop that a failing entry ends.
LoadAllSkipAbort(i) ==
    LoadAllAt([IdleLoad EXCEPT !.pc = "god"], la.loaded, la.failed \cup {i}, la.threw)

\* The catch of the loop body: entry i is skipped and the loop goes on.
LoadAllSkip(i) ==
    LoadAllAt(LoadAllAdvance(i), la.loaded, la.failed \cup {i}, la.threw)

\* loadAll up to its first await: the registry, config and opts are stored.
LoadAllStart ==
    /\ la.pc = "idle"
    /\ pluginSpecsSet' = TRUE
    /\ la' = [IdleLoad EXCEPT !.pc = "import", !.i = 1]
    /\ ev' = NoEvent
    /\ UNCHANGED <<modStatus, customData, plugins, resolvedSecrets, clientActive,
                   wrapped, pendingOf, resolved, calls, reloads, decryptCalls, lazyOps>>
    /\ UNCHANGED <<op, glowVars>>

\* The plugin loadAll constructs for registry entry i: resolved secrets are
\* injected into the configuration before the factory is called.
LoadedPlugin(i, cache) ==
    MakePlugin(<<"load", i>>, i, InjectResolved(BaseConfig(i), ModSecrets(i), 1, cache))

\* `await import(spec.mod)` settles: skip the entry, or build the configuration,
\* call the factory and start register (up to `await this.client.use(plugin)`).
LoadAllImport ==
    /\ la.pc = "import"
    /\ LET i == la.i IN
         IF modStatus[i] # "ok"
           THEN la' = LoadAllSkip(i)
           ELSE \E throws \in BOOLEAN :
                  la' = IF throws
                          THEN LoadAllSkip(i)
                          ELSE [la EXCEPT
                                  !.pc = "use",
                                  !.plugin = LoadedPlugin(i, resolvedSecrets),
                                  !.pending = PendingSecrets(ModSecrets(i), 1, resolvedSecrets)]
    /\ ev' = NoEvent
    /\ UNCHANGED <<modStatus, customData, pluginSpecsSet, plugins, resolvedSecrets,
                   clientActive, wrapped, pendingOf, resolved, calls, reloads,
                   decryptCalls, lazyOps>>
    /\ UNCHANGED <<op, glowVars>>

\* client.use settles inside register: the entry is stored (disabled when the
\* client threw), then the executors are wrapped when secrets are pending.
LoadAllUse ==
    /\ la.pc = "use"
    /\ \E ok \in BOOLEAN :
         /\ clientActive' = IF ok THEN clientActive \cup {la.plugin.name} ELSE clientActive
         /\ plugins' = MapSet(plugins, la.plugin.name, Entry(la.plugin, ok))
         /\ la' = LoadAllAt(LoadAllAdvance(la.i), Append(la.loaded, la.i), la.failed,
                            IF ok THEN la.threw ELSE la.threw \cup {la.plugin.id})
    /\ IF la.pending # <<>>
         THEN /\ wrapped' = [wrapped EXCEPT ![la.i] = TRUE]
              /\ pendingOf' = [pendingOf EXCEPT ![la.i] = la.pending]
              /\ resolved' = [resolved EXCEPT ![la.i] = FALSE]
         ELSE UNCHANGED <<wrapped, pendingOf, resolved>>
    /\ ev' = NoEvent
    /\ UNCHANGED <<modStatus, customData, pluginSpecsSet, resolvedSecrets, calls,
                   reloads, decryptCalls, lazyOps>>
    /\ UNCHANGED <<op, glowVars>>

\* god-mode is imported and registered disabled (register(godPlugin, false)
\* calls nothing on the client).
LoadAllGod ==
    /\ la.pc = "god"
    /\ plugins' = MapSet(plugins, GodModePlugin.name, Entry(GodModePlugin, FALSE))
    /\ la' = [la EXCEPT !.pc = "custom", !.k = 1]
    /\ ev' = NoEvent
    /\ UNCHANGED <<modStatus, customData, pluginSpecsSet, resolvedSecrets, clientActive,
                   wrapped, pendingOf, resolved, calls, reloads, decryptCalls, lazyOps>>
    /\ UNCHANGED <<op, glowVars>>

\* _loadCustomPlugins: the next well-formed entry is registered; an enabled
\* one first awaits client.use.
LoadAllCustom ==
    /\ la.pc = "custom"
    /\ LET k == NextStored(customData, la.k) IN
         IF k > Len(customData)
           THEN /\ la' = [la EXCEPT !.pc = "done", !.k = 0]
                /\ UNCHANGED plugins
           ELSE IF StoredEnabled(customData[k])
             THEN /\ la' = [la EXCEPT !.pc = "customUse", !.k = k,
                                      !.plugin = CustomPlugin(k, customData[k])]
                  /\ UNCHANGED plugins
             ELSE /\ plugins' = MapSet(plugins, customData[k].name,
                                       Entry(CustomPlugin(k, customData[k]), FALSE))
                  /\ la' = [la EXCEPT !.pc = "custom", !.k = k + 1]
    /\ ev' = NoEvent
    /\ UNCHANGED <<modStatus, customData, pluginSpecsSet, resolvedSecrets, clientActive,
                   wrapped, pendingOf, resolved, calls, reloads, decryptCalls, lazyOps>>
    /\ UNCHANGED <<op, glowVars>>

LoadAllCustomUse ==
    /\ la.pc = "customUse"
    /\ \E ok \in BOOLEAN :
         /\ clientActive' = IF ok THEN clientActive \cup {la.plugin.name} ELSE clientActive
         /\ plugins' = MapSet(plugins, la.plugin.name, Entry(la.plugin, ok))
         /\ la' = [la EXCEPT !.pc = "custom", !.k = la.k + 1, !.plugin = NoPlugin,
                             !.threw = IF ok THEN @ ELSE @ \cup {la.plugin.id}]
    /\ ev' = NoEvent
    /\ UNCHANGED <<modStatus, customData, pluginSpecsSet, resolvedSecrets, wrapped,
                   pendingOf, resolved, calls, reloads, decryptCalls, lazyOps>>
    /\ UNCHANGED <<op, glowVars>>


-----------------------------------------------------------------------------
(* Calls of a wrapped executor: lazySecretResolver and _lazyResolveSecrets *)

\* The wrapper's pre-wrap executor: that of the object loadAll constructed.
HasOrigExecutor(i, tool) == tool \in ExecutorsOf(i)

\* executor(args) of the object `by`: the call returns what it returns.
Executed(call, by) ==
    [call EXCEPT !.pc = "done", !.by = by, !.res = "executed", !.out = call.args]

\* `if (origExecutor) return origExecutor(args); return { error: ... }`
FallbackDone(call) ==
    IF HasOrigExecutor(call.i, call.tool)
      THEN Executed(call, <<"load", call.i>>)
      ELSE [call EXCEPT !.pc = "done", !.res = "error"]

\* The branch taken once `resolved` is set: the pre-wrap executor, or nothing.
AlreadyResolvedDone(call) ==
    IF HasOrigExecutor(call.i, call.tool)
      THEN Executed(call, <<"load", call.i>>)
      ELSE [call EXCEPT !.pc = "done", !.res = "undefined"]

\* A resolver that answers with the pre-wrap executor even after a reload.
DelegateToOriginal(call, m) == FallbackDone(call)

\* The tail of the resolver with ok = true: the plugin name is looked up again
\* and the call goes to that entry's executor of the same tool, or falls back
\* when there is none.  (An entry holding the wrapped object itself would run
\* its wrapper, which by now goes to the pre-wrap executor: the same object.)
DelegateDone(call, m) ==
    LET entry == EntryOrNone(m, PluginNameOf(call.i)) IN
    IF entry # NoEntry /\ call.tool \in entry.plugin.execs
      THEN Executed(call, entry.plugin.id)
      ELSE FallbackDone(call)

\* The call in slot c returns with this final record.
CallReturns(c, final) ==
    /\ calls' = [calls EXCEPT ![c] = ReturnedCall]
    /\ ev' = CallEvent(final)

\* The call in slot c goes on to its next await.
CallGoesOn(c, call) ==
    /\ calls' = [calls EXCEPT ![c] = call]
    /\ ev' = NoEvent

\* A loop without the cache check: every stored secret is decrypted.
RECURSIVE LazyLoopNoCache(_, _, _, _)
LazyLoopNoCache(pending, k, config, cache) ==
    IF k > Len(pending) THEN [k |-> k, cfg |-> config]
    ELSE IF pending[k].name \notin StoredCiphertexts
      THEN LazyLoopNoCache(pending, k + 1, config, cache)
    ELSE [k |-> k, cfg |-> config]

\* The for-loop over pendingSecrets from index k: cached values are injected,
\* names without a ciphertext are skipped; it stops at the first secret that
\* has to be decrypted (k = Len + 1 when the loop ends).
RECURSIVE LazyLoop(_, _, _, _)
LazyLoop(pending, k, config, cache) ==
    IF k > Len(pending) THEN [k |-> k, cfg |-> config]
    ELSE IF Truthy(cache[pending[k].name])
      THEN LazyLoop(pending, k + 1,
                    SetConfigPath(config, pending[k].configPath, cache[pending[k].name]), cache)
    ELSE IF pending[k].name \notin StoredCiphertexts
      THEN LazyLoop(pending, k + 1, config, cache)
    ELSE [k |-> k, cfg |-> config]

\* After unregister: the module is imported again, the factory is called on the
\* rebuilt configuration and register starts (up to `await client.use`).  A
\* throwing factory lands in the catch: the resolver falls back.
LazyConstruct(c, call, throws, ops) ==
    /\ IF throws
         THEN CallReturns(c, FallbackDone([call EXCEPT !.threw = TRUE]))
         ELSE CallGoesOn(c, [call EXCEPT !.pc = "use",
                                         !.plugin = MakePlugin(<<"lazy", call.i>>, call.i, call.cfg)])
    /\ lazyOps' = [lazyOps EXCEPT ![call.i] =
                     IF throws THEN ops ELSE [ops EXCEPT !.registers = @ + 1]]

\* _lazyResolveSecrets from the for-loop at index k on, up to its next await:
\* a decrypt call, client.unuse inside unregister, or client.use inside register.
LazyResume(c, call, k, cache) ==
    LET i    == call.i
        pend == pendingOf[i]
        r    == LazyLoop(pend, k, call.cfg, cache)
        name == PluginNameOf(i)
        ops  == [lazyOps[i] EXCEPT !.unregisters = @ + 1]
        next == [call EXCEPT !.k = r.k, !.cfg = r.cfg]
    IN  /\ resolvedSecrets' = cache
        /\ UNCHANGED clientActive
        /\ IF r.k <= Len(pend)
             THEN /\ CallGoesOn(c, [next EXCEPT !.pc = "decrypt"])
                  /\ decryptCalls' = [decryptCalls EXCEPT ![pend[r.k].name] = @ + 1]
                  /\ lazyOps' = [lazyOps EXCEPT ![i].decrypts = @ + 1]
                  /\ UNCHANGED plugins
             ELSE /\ UNCHANGED decryptCalls
                  /\ IF MapHas(plugins, name) /\ MapGet(plugins, name).enabled
                       THEN /\ CallGoesOn(c, [next EXCEPT !.pc = "unuse"])
                            /\ lazyOps' = [lazyOps EXCEPT ![i] = ops]
                            /\ UNCHANGED plugins
                       ELSE /\ plugins' = MapDelete(plugins, name)
                            /\ \E throws \in BOOLEAN : LazyConstruct(c, next, throws, ops)

\* The CLI's chat loop awaits each command and each chat turn before it reads
\* the next input (emblemai.js): loadAll has returned before the first input, a
\* /secrets reload runs alone, and the tool calls of one chat turn run together.
CallInFlight == \E d \in CallIds : calls[d].pc \notin {"idle", "done"}

ReloadInFlight == \E q \in ReloadIds : reloads[q].pc \notin {"idle", "done"}

ApiInFlight == op.pc # "idle"

\* A resolution of plugin i is in flight.
Resolving(i) ==
    \E d \in CallIds : calls[d].i = i /\ calls[d].first

\* A wrapper that sets its flag only once the resolution is over.
MarkResolvedLate(flags, i) == flags

\* `resolved = true`
MarkResolved(flags, i) == [flags EXCEPT ![i] = TRUE]

\* lazySecretResolver(args) up to its first await.  The first call of any tool
\* of the plugin sets `resolved` and enters _lazyResolveSecrets, which builds
\* the base configuration and awaits the import of the crypto module.
CallStart(c) ==
    /\ calls[c].pc = "idle"
    /\ la.pc = "done"
    /\ ~ReloadInFlight
    /\ ~ApiInFlight
    /\ \A d \in CallIds : d < c => calls[d].pc # "idle"
    /\ \E i \in SpecIdx : \E n \in 1..Len(ToolsOf(i)) :
         /\ wrapped[i]
         /\ LET call == [IdleCall EXCEPT !.i = i, !.tool = ToolsOf(i)[n], !.args = c,
                                        !.overlap = Resolving(i),
                                        !.before = EntryOrNone(plugins, PluginNameOf(i))]
            IN  IF ~resolved[i]
                  THEN /\ resolved' = MarkResolved(resolved, i)
                       /\ CallGoesOn(c, [call EXCEPT !.pc = "crypto", !.first = TRUE,
                                                     !.k = 1, !.cfg = BaseConfig(i)])
                  ELSE /\ calls' = [d \in CallIds |->
                                      IF d = c THEN ReturnedCall
                                      ELSE IF calls[d].first /\ calls[d].i = i
                                        THEN [calls[d] EXCEPT !.others = @ + 1]
                                      ELSE calls[d]]
                       /\ ev' = CallEvent(AlreadyResolvedDone(call))
                       /\ UNCHANGED resolved
    /\ UNCHANGED <<modStatus, customData, pluginSpecsSet, plugins, resolvedSecrets,
                   clientActive, wrapped, pendingOf, la, reloads, decryptCalls, lazyOps>>
    /\ UNCHANGED <<op, glowVars>>

\* `await import('@emblemvault/auth-sdk/crypto')` settles.
CallCrypto(c) ==
    /\ calls[c].pc = "crypto"
    /\ \/ /\ CallReturns(c, FallbackDone(calls[c]))
          /\ UNCHANGED <<plugins, resolvedSecrets, clientActive, decryptCalls, lazyOps>>
       \/ LazyResume(c, calls[c], 1, resolvedSecrets)
    /\ UNCHANGED <<modStatus, customData, pluginSpecsSet, wrapped, pendingOf, resolved,
                   la, reloads>>
    /\ UNCHANGED <<op, glowVars>>

\* `await decrypt(...)` settles: a rejection lands in the catch; a plaintext is
\* cached and injected and the loop goes on.
CallDecrypt(c) ==
    /\ calls[c].pc = "decrypt"
    /\ LET call == calls[c]
           sd == pendingOf[call.i][call.k]
           plaintext == DecryptedValue(sd.name)
       IN  \/ /\ CallReturns(c, FallbackDone(call))
              /\ UNCHANGED <<plugins, resolvedSecrets, clientActive, decryptCalls, lazyOps>>
           \/ LazyResume(c, [call EXCEPT !.cfg = SetConfigPath(@, sd.configPath, plaintext),
                                         !.decrypted = @ + 1],
                         call.k + 1,
                         [resolvedSecrets EXCEPT ![sd.name] = plaintext])
    /\ UNCHANGED <<modStatus, customData, pluginSpecsSet, wrapped, pendingOf, resolved,
                   la, reloads>>
    /\ UNCHANGED <<op, glowVars>>

\* client.unuse settles inside unregister (a throw is swallowed); the entry is
\* deleted and construction follows.
CallUnuse(c) ==
    /\ calls[c].pc = "unuse"
    /\ LET name == PluginNameOf(calls[c].i) IN
         /\ \E ok \in BOOLEAN :
              clientActive' = IF ok THEN clientActive \ {name} ELSE clientActive
         /\ plugins' = MapDelete(plugins, name)
    /\ \E throws \in BOOLEAN : LazyConstruct(c, calls[c], throws, lazyOps[calls[c].i])
    /\ UNCHANGED <<modStatus, customData, pluginSpecsSet, resolvedSecrets, wrapped,
                   pendingOf, resolved, la, reloads, decryptCalls>>
    /\ UNCHANGED <<op, glowVars>>

\* client.use settles inside register: the new entry is stored and
\* _lazyResolveSecrets returns true.
CallUse(c) ==
    /\ calls[c].pc = "use"
    /\ \E ok \in BOOLEAN :
         /\ clientActive' = IF ok THEN clientActive \cup {calls[c].plugin.name}
                                  ELSE clientActive
         /\ plugins' = MapSet(plugins, calls[c].plugin.name, Entry(calls[c].plugin, ok))
    /\ CallGoesOn(c, [calls[c] EXCEPT !.pc = "reloaded", !.ok = TRUE])
    /\ UNCHANGED <<modStatus, customData, pluginSpecsSet, resolvedSecrets, wrapped,
                   pendingOf, resolved, la, reloads, decryptCalls, lazyOps>>
    /\ UNCHANGED <<op, glowVars>>

\* The resolver continues with ok = true.
CallDelegate(c) ==
    /\ calls[c].pc = "reloaded"
    /\ CallReturns(c, DelegateDone(calls[c], plugins))
    /\ UNCHANGED <<modStatus, customData, pluginSpecsSet, plugins, resolvedSecrets,
                   clientActive, wrapped, pendingOf, resolved, la, reloads,
                   decryptCalls, lazyOps>>
    /\ UNCHANGED <<op, glowVars>>


-----------------------------------------------------------------------------
(* reloadPluginWithSecret *)

\* Plugin names callers pass.
ReloadPluginNames == {"hustle-bankr", "hustle-elizaos"}

\* A find that takes any declaration of the module for a match.
DeclaresAny(i, secretName) == ModSecrets(i) # <<>>

\* modSecrets.find(s => s.name === secretName) finds a declaration
Declares(i, secretName) ==
    \E k \in 1..Len(ModSecrets(i)) : ModSecrets(i)[k].name = secretName

ResolvedNames(cache) == { s \in SecretNames : Truthy(cache[s]) }

\* The call in slot r returns with this final record.
ReloadReturns(r, final) ==
    /\ reloads' = [reloads EXCEPT ![r] = ReturnedReload]
    /\ ev' = ReloadEvent([final EXCEPT !.pc = "done"])

\* The call in slot r goes on to its next await.
ReloadGoesOn(r, rl) ==
    /\ reloads' = [reloads EXCEPT ![r] = rl]
    /\ ev' = NoEvent

\* `continue`: the next registry entry is imported, or the loop is over and
\* the method returns false.
ReloadContinue(r, rl) ==
    IF rl.i < Len(PluginSpecs)
      THEN ReloadGoesOn(r, [rl EXCEPT !.pc = "import", !.i = rl.i + 1])
      ELSE ReloadReturns(r, [rl EXCEPT !.ret = FALSE])

\* After unregister: a module without the factory function makes the method
\* return false; a throwing factory lands in the catch, which continues with
\* the next registry entry; otherwise register starts (up to `await client.use`).
ReloadConstruct(r, rl, throws) ==
    IF modStatus[rl.i] = "nofactory"
      THEN ReloadReturns(r, [rl EXCEPT !.ret = FALSE, !.failed = TRUE])
    ELSE IF throws
      THEN ReloadContinue(r, [rl EXCEPT !.failed = TRUE])
    ELSE ReloadGoesOn(r, [rl EXCEPT !.pc = "use",
                                    !.plugin = MakePlugin(<<"reload", rl.id>>, rl.i, rl.cfg)])

\* A rebuild that injects only the secret just set.
ReloadConfigOnlySet(i, secretName, cache) ==
    LET decls == ModSecrets(i)
        hits  == { k \in 1..Len(decls) : decls[k].name = secretName }
    IN  IF hits = {} THEN BaseConfig(i)
        ELSE SetConfigPath(BaseConfig(i), decls[CHOOSE k \in hits : TRUE].configPath,
                           cache[secretName])

\* The configuration reloadPluginWithSecret rebuilds for registry entry i:
\* every resolved secret of the module is injected, not only secretName.
ReloadConfig(i, secretName, cache) == InjectResolved(BaseConfig(i), ModSecrets(i), 1, cache)

\* A cache write that waits for a module declaring the secret.
ReloadCacheDeclared(cache, secretName, plaintext) ==
    IF \E i \in SpecIdx : \E k \in 1..Len(ModSecrets(i)) : ModSecrets(i)[k].name = secretName
      THEN [cache EXCEPT ![secretName] = plaintext]
      ELSE cache

\* `this._resolvedSecrets[secretName] = plaintext`
ReloadCache(cache, secretName, plaintext) == [cache EXCEPT ![secretName] = plaintext]

\* reloadPluginWithSecret up to its first await: the guard on _pluginSpecs,
\* the cache write, then the import of the first registry entry's module.
ReloadStart(r) ==
    /\ reloads[r].pc = "idle"
    /\ la.pc \in {"idle", "done"}
    /\ ~ReloadInFlight
    /\ ~CallInFlight
    /\ ~ApiInFlight
    /\ \A q \in ReloadIds : q < r => reloads[q].pc # "idle"
    /\ \E pluginName \in ReloadPluginNames, secretName \in SecretNames,
          plaintext \in PlainValues :
         LET cache == ReloadCache(resolvedSecrets, secretName, plaintext)
             rl == [IdleReload EXCEPT !.pluginName = pluginName, !.secretName = secretName,
                                      !.plaintext = plaintext, !.id = r,
                                      !.before = EntryOrNone(plugins, pluginName),
                                      !.listBefore = List(plugins)]
         IN  IF ~pluginSpecsSet
               THEN /\ ReloadReturns(r, [rl EXCEPT !.ret = FALSE])
                    /\ UNCHANGED resolvedSecrets
               ELSE /\ resolvedSecrets' = cache
                    /\ ReloadGoesOn(r, [rl EXCEPT !.pc = "import", !.i = 1,
                                                  !.cached = ResolvedNames(cache)])
    /\ UNCHANGED <<modStatus, customData, pluginSpecsSet, plugins, clientActive, wrapped,
                   pendingOf, resolved, la, calls, decryptCalls, lazyOps>>
    /\ UNCHANGED <<op, glowVars>>

\* `await import(spec.mod)` settles.  A failed import or a module that does
\* not declare the secret continues with the next entry.  Otherwise the
\* configuration is rebuilt with every resolved secret of the module, and
\* unregister(pluginName) runs up to `await client.unuse`, or to its end.
ReloadImport(r) ==
    /\ reloads[r].pc = "import"
    /\ LET rl == reloads[r]
           i  == rl.i
       IN  IF modStatus[i] = "missing" \/ ~Declares(i, rl.secretName)
             THEN /\ ReloadContinue(r, rl)
                  /\ UNCHANGED plugins
             ELSE LET built == [rl EXCEPT !.cfg = ReloadConfig(i, rl.secretName, resolvedSecrets),
                                          !.found = TRUE]
                  IN  IF MapHas(plugins, rl.pluginName) /\ MapGet(plugins, rl.pluginName).enabled
                        THEN /\ ReloadGoesOn(r, [built EXCEPT !.pc = "unuse"])
                             /\ UNCHANGED plugins
                        ELSE /\ plugins' = MapDelete(plugins, rl.pluginName)
                             /\ \E throws \in BOOLEAN : ReloadConstruct(r, built, throws)
    /\ UNCHANGED <<modStatus, customData, pluginSpecsSet, resolvedSecrets, clientActive,
                   wrapped, pendingOf, resolved, la, calls, decryptCalls, lazyOps>>
    /\ UNCHANGED <<op, glowVars>>

\* client.unuse settles inside unregister; the entry is deleted and
\* construction follows.
ReloadUnuse(r) ==
    /\ reloads[r].pc = "unuse"
    /\ \E ok \in BOOLEAN :
         clientActive' = IF ok THEN clientActive \ {reloads[r].pluginName} ELSE clientActive
    /\ plugins' = MapDelete(plugins, reloads[r].pluginName)
    /\ \E throws \in BOOLEAN : ReloadConstruct(r, reloads[r], throws)
    /\ UNCHANGED <<modStatus, customData, pluginSpecsSet, resolvedSecrets, wrapped,
                   pendingOf, resolved, la, calls, decryptCalls, lazyOps>>
    /\ UNCHANGED <<op, glowVars>>

\* client.use settles inside register: the new entry is stored and the method
\* returns true.
ReloadUse(r) ==
    /\ reloads[r].pc = "use"
    /\ \E ok \in BOOLEAN :
         /\ clientActive' = IF ok THEN clientActive \cup {reloads[r].plugin.name}
                                  ELSE clientActive
         /\ plugins' = MapSet(plugins, reloads[r].plugin.name, Entry(reloads[r].plugin, ok))
    /\ ReloadReturns(r, [reloads[r] EXCEPT !.ret = TRUE])
    /\ UNCHANGED <<modStatus, customData, pluginSpecsSet, resolvedSecrets, wrapped,
                   pendingOf, resolved, la, calls, decryptCalls, lazyOps>>
    /\ UNCHANGED <<op, glowVars>>

-----------------------------------------------------------------------------
(* register, unregister, enable, disable, getTools, getSystemMessage *)

\* The objects a caller registers: one named like a restored custom plugin and
\* without a version, one whose name starts with an underscore, one without
\* a name.
ApiPlugins ==
    { [id |-> <<"api", 1>>, name |-> "my-tools", version |-> "",
       tools |-> <<"hello", "bye">>, execs |-> {}, cfg |-> {}],
      [id |-> <<"api", 2>>, name |-> "_internal", version |-> "1.0.0",
       tools |-> <<"peek">>, execs |-> {}, cfg |-> {}],
      [id |-> <<"api", 3>>, name |-> "", version |-> "1.0.0",
       tools |-> <<"lost">>, execs |-> {}, cfg |-> {}] }

\* The names a caller passes to unregister, enable and disable.
ApiNames == {"my-tools", "my-off", "_internal", "hustle-bankr", "nope"}

\* The call returns: o is its final record, m the registrations it leaves.
ApiReturns(o, m) ==
    /\ plugins' = m
    /\ op' = [IdleOp EXCEPT
                !.n = o.n,
                !.prev = IF o.kind = "disable"
                           THEN [name |-> o.name, before |-> o.mapBefore, after |-> m]
                           ELSE NoPrev]
    /\ ev' = ApiEvent([o EXCEPT !.pc = "done"])

\* The call goes on to its await.
ApiGoesOn(o) ==
    /\ op' = o
    /\ ev' = NoEvent
    /\ UNCHANGED plugins

\* A call is made once loadAll has returned and no other call is in flight.
ApiCallable ==
    /\ la.pc = "done"
    /\ ~ApiInFlight /\ ~CallInFlight /\ ~ReloadInFlight
    /\ op.n < MaxOps

\* The record of a call that starts now.
ApiCall(kind, name) ==
    [IdleOp EXCEPT !.kind = kind, !.name = name, !.before = EntryOrNone(plugins, name),
                   !.mapBefore = plugins, !.n = op.n + 1, !.prev = op.prev]

\* A register that stores only what the client accepted.
RegisterStoredIfActive(m, plugin, enabled) ==
    IF enabled THEN MapSet(m, plugin.name, Entry(plugin, enabled)) ELSE m

\* this.plugins.set(plugin.name, { plugin, enabled, toolCount })
RegisterStored(m, plugin, enabled) == MapSet(m, plugin.name, Entry(plugin, enabled))

\* register(plugin, enabled) up to `await this.client.use(plugin)`; without a
\* name it returns at once, and with enabled false it stores and returns.
Register ==
    /\ ApiCallable
    /\ \E plugin \in ApiPlugins, enabled \in BOOLEAN :
         LET o == [ApiCall("register", plugin.name) EXCEPT !.plugin = plugin,
                                                           !.wanted = enabled]
         IN  IF plugin.name = "" THEN ApiReturns(o, plugins)
             ELSE IF enabled THEN ApiGoesOn([o EXCEPT !.pc = "use", !.called = TRUE])
             ELSE ApiReturns(o, RegisterStored(plugins, plugin, FALSE))
    /\ UNCHANGED <<modStatus, customData, pluginSpecsSet, resolvedSecrets, clientActive,
                   wrapped, pendingOf, resolved, la, calls, reloads, decryptCalls, lazyOps>>
    /\ UNCHANGED glowVars

\* client.use settles inside register: a throw turns enabled to false, and the
\* entry is stored.
RegisterUse ==
    /\ op.pc = "use" /\ op.kind = "register"
    /\ \E ok \in BOOLEAN :
         /\ clientActive' = IF ok THEN clientActive \cup {op.plugin.name} ELSE clientActive
         /\ ApiReturns([op EXCEPT !.threw = ~ok], RegisterStored(plugins, op.plugin, ok))
    /\ UNCHANGED <<modStatus, customData, pluginSpecsSet, resolvedSecrets,
                   wrapped, pendingOf, resolved, la, calls, reloads, decryptCalls, lazyOps>>
    /\ UNCHANGED glowVars

\* An unregister that keeps the entry when deactivation throws.
UnregisterIfDeactivated(m, name, ok) == IF ok THEN MapDelete(m, name) ELSE m

\* this.plugins.delete(name), whatever client.unuse did.
UnregisterDeleted(m, name, ok) == MapDelete(m, name)

\* unregister(name) up to `await this.client.unuse(name)`; a disabled entry is
\* deleted at once.
Unregister ==
    /\ ApiCallable
    /\ \E name \in ApiNames :
         LET o == ApiCall("unregister", name)
         IN  IF ~MapHas(plugins, name) THEN ApiReturns(o, plugins)
             ELSE IF MapGet(plugins, name).enabled
               THEN ApiGoesOn([o EXCEPT !.pc = "unuse", !.called = TRUE])
             ELSE ApiReturns(o, UnregisterDeleted(plugins, name, TRUE))
    /\ UNCHANGED <<modStatus, customData, pluginSpecsSet, resolvedSecrets, clientActive,
                   wrapped, pendingOf, resolved, la, calls, reloads, decryptCalls, lazyOps>>
    /\ UNCHANGED glowVars

\* client.unuse settles inside unregister: a throw is swallowed.
UnregisterUnuse ==
    /\ op.pc = "unuse" /\ op.kind = "unregister"
    /\ \E ok \in BOOLEAN :
         /\ clientActive' = IF ok THEN clientActive \ {op.name} ELSE clientActive
         /\ ApiReturns([op EXCEPT !.threw = ~ok], UnregisterDeleted(plugins, op.name, ok))
    /\ UNCHANGED <<modStatus, customData, pluginSpecsSet, resolvedSecrets,
                   wrapped, pendingOf, resolved, la, calls, reloads, decryptCalls, lazyOps>>
    /\ UNCHANGED glowVars

\* What an async method hands to a caller that does not await it.
Promise == "[object Promise]"

\* cmdPlugin: ok is what pluginManager.enable(name) or disable(name) handed
\* back; the message says enabled or disabled when ok is truthy, and not found
\* otherwise.
CmdPluginSaid(action, ok) ==
    IF Truthy(ok) THEN (IF action = "on" THEN "enabled" ELSE "disabled")
    ELSE "not found"

\* An enable that reports success whatever the client did.
EnableSettledAlways(e, ok) == [entry |-> [e EXCEPT !.enabled = TRUE], ret |-> "true"]

\* What enable does once client.use has settled: the entry and the result.
EnableSettled(e, ok) ==
    IF ok THEN [entry |-> [e EXCEPT !.enabled = TRUE], ret |-> "true"]
    ELSE [entry |-> e, ret |-> "false"]

\* enable(name) up to `await this.client.use(entry.plugin)`.
Enable ==
    /\ ApiCallable
    /\ \E name \in ApiNames :
         LET o == [ApiCall("enable", name) EXCEPT !.said = CmdPluginSaid("on", Promise)]
         IN  IF ~MapHas(plugins, name) THEN ApiReturns([o EXCEPT !.ret = "false"], plugins)
             ELSE IF MapGet(plugins, name).enabled
               THEN ApiReturns([o EXCEPT !.ret = "true"], plugins)
             ELSE ApiGoesOn([o EXCEPT !.pc = "use", !.called = TRUE])
    /\ UNCHANGED <<modStatus, customData, pluginSpecsSet, resolvedSecrets,
                   clientActive, wrapped, pendingOf, resolved, la, calls, reloads,
                   decryptCalls, lazyOps>>
    /\ UNCHANGED glowVars

\* client.use settles inside enable.
EnableUse ==
    /\ op.pc = "use" /\ op.kind = "enable"
    /\ \E ok \in BOOLEAN :
         LET r == EnableSettled(MapGet(plugins, op.name), ok)
         IN  /\ clientActive' = IF ok THEN clientActive \cup {r.entry.plugin.name}
                                      ELSE clientActive
             /\ ApiReturns([op EXCEPT !.threw = ~ok, !.ret = r.ret],
                           MapSet(plugins, op.name, r.entry))
    /\ UNCHANGED <<modStatus, customData, pluginSpecsSet, resolvedSecrets,
                   wrapped, pendingOf, resolved, la, calls, reloads, decryptCalls, lazyOps>>
    /\ UNCHANGED glowVars

\* A disable that forgets the tool count.
DisableSettledReset(e) == [e EXCEPT !.enabled = FALSE, !.toolCount = 0]

\* entry.enabled = false
DisableSettled(e) == [e EXCEPT !.enabled = FALSE]

\* disable(name) up to `await this.client.unuse(name)`.
Disable ==
    /\ ApiCallable
    /\ \E name \in ApiNames :
         LET o == [ApiCall("disable", name) EXCEPT !.said = CmdPluginSaid("off", Promise)]
         IN  IF ~MapHas(plugins, name) THEN ApiReturns([o EXCEPT !.ret = "false"], plugins)
             ELSE IF ~MapGet(plugins, name).enabled
               THEN ApiReturns([o EXCEPT !.ret = "true"], plugins)
             ELSE ApiGoesOn([o EXCEPT !.pc = "unuse", !.called = TRUE])
    /\ UNCHANGED <<modStatus, customData, pluginSpecsSet, resolvedSecrets,
                   clientActive, wrapped, pendingOf, resolved, la, calls, reloads,
                   decryptCalls, lazyOps>>
    /\ UNCHANGED glowVars

\* client.unuse settles inside disable: a throw is swallowed.
DisableUnuse ==
    /\ op.pc = "unuse" /\ op.kind = "disable"
    /\ \E ok \in BOOLEAN :
         /\ clientActive' = IF ok THEN clientActive \ {op.name} ELSE clientActive
         /\ ApiReturns([op EXCEPT !.threw = ~ok, !.ret = "true"],
                       MapSet(plugins, op.name, DisableSettled(MapGet(plugins, op.name))))
    /\ UNCHANGED <<modStatus, customData, pluginSpecsSet, resolvedSecrets,
                   wrapped, pendingOf, resolved, la, calls, reloads, decryptCalls, lazyOps>>
    /\ UNCHANGED glowVars

\* getTools' filter: the name does not start with an underscore and the
\* entry is enabled (tools are arrays in this model).
OffersTools(e) == ~StartsWithUnderscore(e.name) /\ e.enabled

\* getTools(): the tools of the offering entries, in map order.
RECURSIVE GetToolsFrom(_, _)
GetToolsFrom(m, k) ==
    IF k > Len(m) THEN <<>>
    ELSE (IF OffersTools(m[k])
            THEN [t \in 1..Len(m[k].plugin.tools) |->
                    [name |-> m[k].plugin.tools[t], plugin |-> m[k].plugin.name]]
            ELSE <<>>) \o GetToolsFrom(m, k + 1)

GetTools(m) == GetToolsFrom(m, 1)

\* A system message that describes disabled plugins too.
DescribedAlways(e) == ~StartsWithUnderscore(e.name) /\ Len(e.plugin.tools) > 0

\* getSystemMessage's filter.
Described(e) ==
    ~StartsWithUnderscore(e.name) /\ e.enabled /\ Len(e.plugin.tools) > 0

RECURSIVE SumToolCount(_, _)
SumToolCount(es, k) ==
    IF k > Len(es) THEN 0 ELSE es[k].toolCount + SumToolCount(es, k + 1)

\* The null getSystemMessage returns.
NullMessage == [role |-> "null", sections |-> <<>>, plugins |-> 0, tools |-> 0]

\* getSystemMessage(): the content is its sections (heading: name, version,
\* tool count; one line per tool) and the totals line; the two fixed
\* sentences around them are the same in every message.
GetSystemMessage(m) ==
    LET enabled == SelectSeq(m, Described)
    IN  IF Len(enabled) = 0 THEN NullMessage
        ELSE [role |-> "system",
              sections |-> [k \in 1..Len(enabled) |->
                              [name |-> enabled[k].name,
                               version |-> IF enabled[k].plugin.version = "" THEN "0.0.0"
                                           ELSE enabled[k].plugin.version,
                               toolCount |-> enabled[k].toolCount,
                               tools |-> enabled[k].plugin.tools]],
              plugins |-> Len(enabled),
              tools |-> SumToolCount(enabled, 1)]

-----------------------------------------------------------------------------
(* GlowStreamBuffer.  A string is the sequence of its characters; indexes   *)
(* are the code's 0-based ones.  What push and flush return is modelled by  *)
(* the content handed to the renderer.                                      *)

\* The backtick character (written out: the grave accent).
Backtick == "grave"

Backticks == <<Backtick, Backtick, Backtick>>

Tildes == <<"~", "~", "~">>

\* The texts streamed are made of these pieces: the two fence delimiters, a
\* newline, a letter, a header prefix and a horizontal rule.
GlowTokens == { Backticks, Tildes, <<"\n">>, <<"a">>, <<"#", " ">>, <<"-", "-", "-">> }

RECURSIVE TextsOf(_)
TextsOf(n) ==
    IF n = 0 THEN { <<>> }
    ELSE LET prev == TextsOf(n - 1)
         IN  prev \cup { t \o tok : t \in prev, tok \in GlowTokens }

\* A slice that starts one character late.
SliceLate(s, from) == SubSeq(s, from + 2, Len(s))

\* s.slice(from)
Slice(s, from) == SubSeq(s, from + 1, Len(s))

\* The fence regex (three backticks or three tildes, anchored, flags gm) at
\* index p of s: the fence matched there, <<>> when none.  The anchor matches
\* at the start of the string and after a newline.
FenceAt(s, p) ==
    IF (p = 0 \/ s[p] = "\n") /\ p + 3 <= Len(s)
      THEN LET f == SubSeq(s, p + 1, p + 3)
           IN  IF f \in {Backticks, Tildes} THEN f ELSE <<>>
      ELSE <<>>

\* The loop over the matches of the fence regex in s, from index p on.
RECURSIVE FenceLoop(_, _, _)
FenceLoop(s, p, st) ==
    IF p >= Len(s) THEN st
    ELSE LET f == FenceAt(s, p) IN
         IF f = <<>> THEN FenceLoop(s, p + 1, st)
         ELSE IF ~st.inCodeBlock
           THEN FenceLoop(s, p + 3, [inCodeBlock |-> TRUE, codeBlockFence |-> f])
         ELSE IF f = st.codeBlockFence
           THEN FenceLoop(s, p + 3, [inCodeBlock |-> FALSE, codeBlockFence |-> <<>>])
         ELSE FenceLoop(s, p + 3, st)

\* _updateCodeBlockState: only the content after lastRenderedLength is scanned.
UpdateCodeBlockState(buf, lrl, st) == FenceLoop(Slice(buf, lrl), 0, st)

\* indexOf of two newlines in s, searched from index p (-1 when absent)
RECURSIVE IndexOfBlank(_, _)
IndexOfBlank(s, p) ==
    IF p + 2 > Len(s) THEN -1
    ELSE IF s[p + 1] = "\n" /\ s[p + 2] = "\n" THEN p
    ELSE IndexOfBlank(s, p + 1)

\* White space (the regex class s).
IsSpace(ch) == ch \in {" ", "\n"}

RECURSIVE TrimStart(_)
TrimStart(s) == IF s # <<>> /\ IsSpace(s[1]) THEN TrimStart(Tail(s)) ELSE s

RECURSIVE TrimEnd(_)
TrimEnd(s) ==
    IF s # <<>> /\ IsSpace(s[Len(s)]) THEN TrimEnd(SubSeq(s, 1, Len(s) - 1)) ELSE s

\* line.trim()
Trim(s) == TrimEnd(TrimStart(s))

\* Length of the run of ch at the start of s.
RECURSIVE Run(_, _)
Run(s, ch) == IF s # <<>> /\ s[1] = ch THEN 1 + Run(Tail(s), ch) ELSE 0

\* _isBlockElement on the trimmed line: one to six # then white space, or a
\* line made of three or more of one of - * _ and nothing else.
IsBlockElement(line) ==
    LET t == Trim(line)
        h == Run(t, "#")
    IN  \/ h >= 1 /\ h <= 6 /\ Len(t) > h /\ IsSpace(t[h + 1])
        \/ \E ch \in {"-", "*", "_"} : Len(t) >= 3 /\ Run(t, ch) = Len(t)

\* What follows the last newline of s.
RECURSIVE AfterLastNewline(_)
AfterLastNewline(s) ==
    IF s = <<>> \/ s[Len(s)] = "\n" THEN <<>>
    ELSE Append(AfterLastNewline(SubSeq(s, 1, Len(s) - 1)), s[Len(s)])

\* lines[lines.length - 2] of a buffer that ends with a newline.
LastLine(buf) == AfterLastNewline(SubSeq(buf, 1, Len(buf) - 1))

\* A breakpoint search that tries the block-element rule first.
FindBreakpointBlockFirst(buf) ==
    IF Len(buf) > 1 /\ buf[Len(buf)] = "\n" /\ IsBlockElement(LastLine(buf))
      THEN Len(buf)
    ELSE IF IndexOfBlank(buf, 0) # -1 THEN IndexOfBlank(buf, 0) + 2
    ELSE -1

\* _findBreakpoint: the index after the breakpoint, or -1.
FindBreakpoint(buf) ==
    LET paragraphBreak == IndexOfBlank(buf, 0) IN
    IF paragraphBreak # -1 THEN paragraphBreak + 2
    ELSE IF Len(buf) > 1 /\ buf[Len(buf)] = "\n" /\ IsBlockElement(LastLine(buf))
      THEN Len(buf)
    ELSE -1

\* _tryFlush on a buffer: the new fields, the return value and the number of
\* characters taken off the front of the buffer.
TryFlush(buf, lrl, st) ==
    LET st2  == UpdateCodeBlockState(buf, lrl, st)
        bp   == FindBreakpoint(buf)
        stay == [st |-> st2, buffer |-> buf, lrl |-> Len(buf), ret |-> Null, taken |-> 0]
    IN  IF st2.inCodeBlock THEN stay
        ELSE IF bp = -1 THEN stay
        ELSE [st |-> st2, buffer |-> Slice(buf, bp), lrl |-> Len(buf) - bp,
              ret |-> IF bp = 0 THEN Null ELSE SubSeq(buf, 1, bp), taken |-> bp]

\* A returned unit: the span of the text it holds (1-based, inclusive).
Unit(from, to) == [from |-> from, to |-> to]

\* push(chunk) with the next chunk of the text, of any length.
GlowPush ==
    /\ \E n \in 0..(Len(text) - pushed) :
         LET chunk == SubSeq(text, pushed + 1, pushed + n)
             start == pushed - Len(buffer)
             r     == TryFlush(buffer \o chunk, lastRenderedLength,
                               [inCodeBlock |-> inCodeBlock,
                                codeBlockFence |-> codeBlockFence])
         IN  /\ pushed' = pushed + n
             /\ buffer' = r.buffer
             /\ inCodeBlock' = r.st.inCodeBlock
             /\ codeBlockFence' = r.st.codeBlockFence
             /\ lastRenderedLength' = r.lrl
             /\ ret' = r.ret
             /\ units' = IF r.ret = Null THEN units
                         ELSE Append(units, Unit(start + 1, start + r.taken))
    /\ UNCHANGED <<text, pmVars, op>>

\* A flush that clears the text and leaves the fence fields alone.
GlowFlushKeepsFence ==
    /\ pushed = Len(text)
    /\ ret' = IF Len(buffer) = 0 THEN Null ELSE buffer
    /\ buffer' = <<>>
    /\ lastRenderedLength' = 0
    /\ units' = IF Len(buffer) = 0 THEN units
                ELSE Append(units, Unit(pushed - Len(buffer) + 1, pushed))
    /\ UNCHANGED <<inCodeBlock, codeBlockFence, text, pushed, pmVars, op>>

\* flush() once the whole text has been pushed.
GlowFlush ==
    /\ pushed = Len(text)
    /\ IF Len(buffer) = 0
         THEN /\ ret' = Null
              /\ UNCHANGED <<buffer, inCodeBlock, codeBlockFence, lastRenderedLength, units>>
         ELSE /\ ret' = buffer
              /\ buffer' = <<>>
              /\ inCodeBlock' = FALSE
              /\ codeBlockFence' = <<>>
              /\ lastRenderedLength' = 0
              /\ units' = Append(units, Unit(pushed - Len(buffer) + 1, pushed))
    /\ UNCHANGED <<text, pushed, pmVars, op>>

\* reset(); the text is then streamed again from its start.
GlowReset ==
    /\ pushed > 0
    /\ buffer' = <<>>
    /\ inCodeBlock' = FALSE
    /\ codeBlockFence' = <<>>
    /\ lastRenderedLength' = 0
    /\ pushed' = 0
    /\ ret' = Null
    /\ units' = <<>>
    /\ UNCHANGED <<text, pmVars, op>>

\* A new GlowStreamBuffer and a text to stream; the PluginManager is not used.
InitGlow ==
    /\ text \in TextsOf(MaxTokens)
    /\ pushed = 0
    /\ buffer = <<>>
    /\ inCodeBlock = FALSE
    /\ codeBlockFence = <<>>
    /\ lastRenderedLength = 0
    /\ ret = Null
    /\ units = <<>>
    /\ modStatus = [i \in SpecIdx |-> "missing"]
    /\ customData = <<>>
    /\ pluginSpecsSet = FALSE
    /\ plugins = <<>>
    /\ resolvedSecrets = [s \in SecretNames |-> Undefined]
    /\ clientActive = {}
    /\ wrapped = [i \in SpecIdx |-> FALSE]
    /\ pendingOf = [i \in SpecIdx |-> <<>>]
    /\ resolved = [i \in SpecIdx |-> FALSE]
    /\ la = IdleLoad
    /\ calls = [c \in CallIds |-> IdleCall]
    /\ reloads = [r \in ReloadIds |-> IdleReload]
    /\ decryptCalls = [s \in SecretNames |-> 0]
    /\ lazyOps = [i \in SpecIdx |-> NoLazyOps]
    /\ ev = NoEvent
    /\ op = IdleOp

-----------------------------------------------------------------------------

LoadAll ==
    \/ LoadAllStart \/ LoadAllImport \/ LoadAllUse
    \/ LoadAllGod \/ LoadAllCustom \/ LoadAllCustomUse

LazyCall(c) ==
    \/ CallStart(c) \/ CallCrypto(c) \/ CallDecrypt(c)
    \/ CallUnuse(c) \/ CallUse(c) \/ CallDelegate(c)

Reload(r) ==
    \/ ReloadStart(r) \/ ReloadImport(r) \/ ReloadUnuse(r) \/ ReloadUse(r)

\* A session of /secrets commands: loadAll and reloads.
NextReload ==
    \/ LoadAll
    \/ \E r \in ReloadIds : Reload(r)

SpecReload == Init /\ [][NextReload]_vars

\* A session of chat turns with at most one /secrets command: loadAll, calls of
\* wrapped executors, and the first reload.
NextLazy ==
    \/ LoadAll
    \/ \E c \in CallIds : LazyCall(c)
    \/ \E r \in ReloadIds : (\A q \in ReloadIds : r <= q) /\ Reload(r)

SpecLazy == Init /\ [][NextLazy]_vars

\* Persisted lists a startup may find: the empty one, one with a malformed
\* entry, one whose entry is named like the built-in god-mode plugin (install_plugin
\* persists whatever name it is given), and one with an explicit true flag.
StartupCustomData ==
    CustomDataChoices \cup
    { << >>,
      << [name |-> "god-mode", version |-> "9.9.9", tools |-> <<"hack">>, enabled |-> "absent"] >>,
      << [name |-> "my-off", version |-> "", tools |-> <<"hello">>, enabled |-> "false"],
         [name |-> "", version |-> "1.0.0", tools |-> <<"lost">>, enabled |-> "true"],
         [name |-> "my-tools", version |-> "3.0.0", tools |-> <<>>, enabled |-> "true"] >> }

\* A startup in any deployment: each package is missing, lacks its factory
\* export, or is installed.
InitLoad ==
    /\ modStatus \in [SpecIdx -> {"missing", "nofactory", "ok"}]
    /\ customData \in StartupCustomData
    /\ pluginSpecsSet = FALSE
    /\ plugins = <<>>
    /\ resolvedSecrets = [s \in SecretNames |-> Undefined]
    /\ clientActive = {}
    /\ wrapped = [i \in SpecIdx |-> FALSE]
    /\ pendingOf = [i \in SpecIdx |-> <<>>]
    /\ resolved = [i \in SpecIdx |-> FALSE]
    /\ la = IdleLoad
    /\ calls = [c \in CallIds |-> IdleCall]
    /\ reloads = [r \in ReloadIds |-> IdleReload]
    /\ decryptCalls = [s \in SecretNames |-> 0]
    /\ lazyOps = [i \in SpecIdx |-> NoLazyOps]
    /\ ev = NoEvent
    /\ op = IdleOp
    /\ text = <<>>
    /\ pushed = 0
    /\ buffer = <<>>
    /\ inCodeBlock = FALSE
    /\ codeBlockFence = <<>>
    /\ lastRenderedLength = 0
    /\ ret = Null
    /\ units = <<>>

\* Startup alone: loadAll from its call to its return.
NextLoad == LoadAll

SpecLoad == InitLoad /\ [][NextLoad]_vars

\* A startup with the bankr package installed and the usual persisted list.
InitApi ==
    /\ Init
    /\ modStatus = [i \in SpecIdx |-> IF i = Bankr THEN "ok" ELSE "missing"]

Api ==
    \/ Register \/ RegisterUse \/ Unregister \/ UnregisterUnuse
    \/ Enable \/ EnableUse \/ Disable \/ DisableUnuse

\* A session of plugin management: loadAll, then register, unregister, enable
\* and disable calls made one after the other, and at most one /secrets reload.
NextApi ==
    \/ LoadAll
    \/ Api
    \/ \E r \in ReloadIds : (\A q \in ReloadIds : r <= q) /\ Reload(r)

SpecApi == InitApi /\ [][NextApi]_vars

\* A text streamed through a GlowStreamBuffer.
NextGlow == GlowPush \/ GlowFlush \/ GlowReset

SpecGlow == InitGlow /\ [][NextGlow]_vars

-----------------------------------------------------------------------------
(* Properties of reloadPluginWithSecret, stated at the step in which a call *)
(* returns (ev is that call's final record).                                *)

\* C7 as stated: after every call of reloadPluginWithSecret(pluginName,
\* secretName, plaintext), whatever it returns and whatever state the manager
\* was in when it was called, the cache maps secretName to plaintext.
C7_CachedAfterEveryCall ==
    ev.kind = "reload" => resolvedSecrets[ev.reload.secretName] = ev.reload.plaintext

\* C7 amended: on a manager whose loadAll has been called, the plaintext is
\* stored under secretName before the call's first await and is still there
\* when the call returns, whatever it returns.
C7_CachedOnceLoaded ==
    /\ \A r \in ReloadIds :
          reloads[r].pc \notin {"idle", "done"}
              => resolvedSecrets[reloads[r].secretName] = reloads[r].plaintext
    /\ (ev.kind = "reload" /\ pluginSpecsSet)
          => resolvedSecrets[ev.reload.secretName] = ev.reload.plaintext

\* A reload that failed after loadAll and left its plaintext in the cache.
C7_Witness ==
    /\ ev.kind = "reload"
    /\ pluginSpecsSet
    /\ ~ev.reload.ret
    /\ resolvedSecrets[ev.reload.secretName] = ev.reload.plaintext

\* C2: whenever reloadPluginWithSecret returns false because construction
\* fails (no factory function, or the factory throws), the registration that
\* existed under pluginName before the call is still present, with the same
\* instance, enabled flag and toolCount.
C2_FailedReloadKeepsRegistration ==
    (ev.kind = "reload" /\ ~ev.reload.ret /\ ev.reload.failed /\ ev.reload.before # NoEntry)
        => EntryOrNone(plugins, ev.reload.pluginName) = ev.reload.before

\* C10: a reloadPluginWithSecret whose secretName no module of the registry
\* declares returns false, and list() after the call equals list() before it.
C10_UndeclaredSecretChangesNothing ==
    (/\ ev.kind = "reload"
     /\ \A i \in SpecIdx : \A k \in 1..Len(ModSecrets(i)) :
           ModSecrets(i)[k].name # ev.reload.secretName)
        => /\ ~ev.reload.ret
           /\ List(plugins) = ev.reload.listBefore

\* Such a call has returned on a manager with registrations to lose.
C10_Witness ==
    /\ ev.kind = "reload"
    /\ ev.reload.secretName = "other"
    /\ pluginSpecsSet
    /\ ~ev.reload.ret
    /\ Len(ev.reload.listBefore) >= 2
    /\ List(plugins) = ev.reload.listBefore

\* C9: every reload that returns true leaves, under the name of the plugin it
\* built, the instance it built, and that instance's configuration holds, at
\* its config path, every secret of the plugin that is in the cache: the one
\* just set and those set by earlier calls.
C9_ReloadInjectsEveryResolvedSecret ==
    (ev.kind = "reload" /\ ev.reload.ret) =>
        LET rl    == ev.reload
            entry == EntryOrNone(plugins, PluginNameOf(rl.i))
        IN  /\ entry.plugin.id = <<"reload", rl.id>>
            /\ \A k \in 1..Len(ModSecrets(rl.i)) :
                  LET sd == ModSecrets(rl.i)[k] IN
                  Truthy(resolvedSecrets[sd.name])
                      => ConfigAt(entry.plugin.cfg, sd.configPath) = resolvedSecrets[sd.name]

\* The second of two reloads that set the two secrets of bankr one at a time
\* has returned true, and the registered instance holds both.
C9_Witness ==
    /\ ev.kind = "reload"
    /\ ev.reload.ret
    /\ ev.reload.i = Bankr
    /\ ev.reload.id >= 2
    /\ Truthy(resolvedSecrets["apiKey"])
    /\ Truthy(resolvedSecrets["apiSecret"])
    /\ LET cfg == EntryOrNone(plugins, "hustle-bankr").plugin.cfg
       IN  /\ ConfigAt(cfg, <<"bankrApi", ".", "apiKey">>) = resolvedSecrets["apiKey"]
           /\ ConfigAt(cfg, <<"bankrApi", ".", "secret">>) = resolvedSecrets["apiSecret"]

-----------------------------------------------------------------------------
(* Properties of lazy secret resolution, stated at the step in which a call *)
(* of a wrapped executor returns (ev is that call's final record).          *)

\* C1 as stated: for a plugin with one pending secret whose decrypt succeeds,
\* the calls fired at its wrapped executors while the resolution is in flight
\* cause exactly one decrypt call, one unregister and one register.
C1_OneDecryptOneReload ==
    (/\ ev.kind = "call" /\ ev.call.first
     /\ Len(pendingOf[ev.call.i]) = 1
     /\ ev.call.decrypted = 1)
        => /\ lazyOps[ev.call.i].decrypts = 1
           /\ lazyOps[ev.call.i].unregisters = 1
           /\ lazyOps[ev.call.i].registers = 1

\* C1 amended: for such a plugin there is exactly one decrypt call and exactly
\* one unregister, and one register when the factory accepts the rebuilt
\* configuration, none when it throws; and no call is ever left without a next
\* step, so every call returns.
C1_OneDecryptOneUnregister ==
    /\ (/\ ev.kind = "call" /\ ev.call.first
        /\ Len(pendingOf[ev.call.i]) = 1
        /\ ev.call.decrypted = 1)
           => /\ lazyOps[ev.call.i].decrypts = 1
              /\ lazyOps[ev.call.i].unregisters = 1
              /\ lazyOps[ev.call.i].registers = IF ev.call.threw THEN 0 ELSE 1
              /\ ev.call.ok = ~ev.call.threw
    /\ \A c \in CallIds :
          calls[c].pc \notin {"idle", "done"} => ENABLED LazyCall(c)

\* The first call of elizaos (one pending secret) has returned after a
\* successful resolution during which another call of the plugin was made.
C1_Witness ==
    /\ ev.kind = "call" /\ ev.call.first /\ ev.call.ok
    /\ ev.call.i = Eliza
    /\ Len(pendingOf[Eliza]) = 1
    /\ ev.call.decrypted = 1
    /\ ev.call.others >= 1
    /\ lazyOps[Eliza] = [decrypts |-> 1, unregisters |-> 1, registers |-> 1]
    /\ \A c \in CallIds : calls[c].pc \in {"idle", "done"}

\* C3: decrypt is invoked at most once per secret name, over every
\* interleaving of loadAll, lazy resolutions and reloads.
C3_DecryptAtMostOncePerName ==
    \A s \in SecretNames : decryptCalls[s] <= 1

\* C5: when lazy resolution fails, the triggering call is answered by the
\* pre-wrap executor (or by an error object when there is none) and the
\* registration under the plugin's name is the one that was there before the
\* call: same instance, same enabled flag.
C5_FailedResolutionKeepsPlugin ==
    (ev.kind = "call" /\ ev.call.first /\ ~ev.call.ok)
        => /\ IF HasOrigExecutor(ev.call.i, ev.call.tool)
                THEN ev.call.res = "executed" /\ ev.call.by = <<"load", ev.call.i>>
                ELSE ev.call.res = "error"
           /\ EntryOrNone(plugins, PluginNameOf(ev.call.i)) = ev.call.before

\* C6: the call that triggered a successful resolution returns what the
\* executor of the same tool in the new registration under the plugin's name
\* returns, and that executor was given the call's own argument.
C6_TriggeringCallDelegated ==
    (ev.kind = "call" /\ ev.call.first /\ ev.call.ok)
        => LET entry == EntryOrNone(plugins, PluginNameOf(ev.call.i))
           IN  /\ entry.plugin.id = <<"lazy", ev.call.i>>
               /\ ev.call.res # ""
               /\ ev.call.tool \in entry.plugin.execs
                     => /\ ev.call.by = entry.plugin.id
                        /\ ev.call.res = "executed"
                        /\ ev.call.out = ev.call.args

\* A triggering call has been answered by the instance its resolution built,
\* which is not the instance that was registered when the call was made.
C6_Witness ==
    /\ ev.kind = "call" /\ ev.call.first /\ ev.call.ok
    /\ ev.call.res = "executed"
    /\ ev.call.by = <<"lazy", ev.call.i>>
    /\ ev.call.before.plugin.id # ev.call.by
    /\ ev.call.out = ev.call.args

\* C8: once a secret name is in the cache no step invokes decrypt for it, and
\* a lazy resolution that succeeds has injected every cached pending secret
\* at its config path.
C8_NoDecryptOnceCached ==
    [][/\ \A s \in SecretNames :
            Truthy(resolvedSecrets[s]) => decryptCalls'[s] = decryptCalls[s]
       /\ (ev'.kind = "call" /\ ev'.call.first /\ ev'.call.ok)
            => LET i     == ev'.call.i
                   entry == EntryOrNone(plugins', PluginNameOf(i))
               IN  \A k \in 1..Len(pendingOf[i]) :
                     Truthy(resolvedSecrets'[pendingOf[i][k].name])
                         => ConfigAt(entry.plugin.cfg, pendingOf[i][k].configPath)
                              = resolvedSecrets'[pendingOf[i][k].name]
      ]_vars

\* A lazy resolution of elizaos succeeded without any decrypt of the secret a
\* reload had cached, and the instance it built holds the cached value.
C8_Witness ==
    /\ ev.kind = "call" /\ ev.call.first /\ ev.call.ok
    /\ ev.call.i = Eliza
    /\ decryptCalls["apiKey"] = 0
    /\ resolvedSecrets["apiKey"] \in PlainValues
    /\ ConfigAt(EntryOrNone(plugins, "hustle-elizaos").plugin.cfg, <<"token">>)
         = resolvedSecrets["apiKey"]

-----------------------------------------------------------------------------
(* Properties of GlowStreamBuffer. *)

\* The fenced blocks of a string that are closed in it: a fence delimiter at
\* the start of a line opens a block, the next delimiter of the same style at
\* the start of a line closes it.  open is the position of the first
\* character of the opening delimiter, close that of the last character of
\* the closing one.
RECURSIVE FencedBlocks(_, _, _, _)
FencedBlocks(s, p, open, style) ==
    IF p >= Len(s) THEN {}
    ELSE LET f == FenceAt(s, p) IN
         IF f = <<>> THEN FencedBlocks(s, p + 1, open, style)
         ELSE IF open = 0 THEN FencedBlocks(s, p + 3, p + 1, f)
         ELSE IF f = style
           THEN {[open |-> open, close |-> p + 3]} \cup FencedBlocks(s, p + 3, 0, <<>>)
         ELSE FencedBlocks(s, p + 3, open, style)

\* C4: whatever the text and its split into chunks, no unit returned by push
\* (or by the final flush) holds the opening fence line of a block whose
\* closing fence is in the text without holding that closing fence too.
C4_NoFenceSplit ==
    \A k \in 1..Len(units) : \A b \in FencedBlocks(text, 0, 0, <<>>) :
        (units[k].from <= b.open /\ b.open <= units[k].to) => b.close <= units[k].to


\* The style of the fence that is open at the end of s, read line by line from
\* index p on (the empty sequence when none is): a fence opened by a line that
\* starts with one style is closed only by a later line that starts with the
\* same style.
RECURSIVE OpenFence(_, _, _)
OpenFence(s, p, style) ==
    IF p >= Len(s) THEN style
    ELSE LET f == FenceAt(s, p) IN
         IF f = <<>> THEN OpenFence(s, p + 1, style)
         ELSE IF style = <<>> THEN OpenFence(s, p + 3, f)
         ELSE IF f = style THEN OpenFence(s, p + 3, <<>>)
         ELSE OpenFence(s, p + 3, style)

\* C20 as stated: a push made while a fence is open in the text pushed so far
\* (opened by a line starting with one style and not yet closed by a line
\* starting with the same style) returns null, whatever else the buffer holds.
C20_PushInsideOpenFenceReturnsNull ==
    [][(GlowPush /\ OpenFence(SubSeq(text, 1, pushed'), 0, <<>>) # <<>>) => ret' = Null]_vars

\* The buffer of the push made in this step, before it is cut: the old buffer
\* and the chunk.
PushedBuffer == buffer \o SubSeq(text, pushed + 1, pushed')

\* C21: when after a push no fence is open and the buffer holds a paragraph
\* break, the push returns the prefix up to and including the first blank
\* line and keeps the remainder, also when the buffer ends in a complete
\* header or horizontal-rule line.
C21_ParagraphBreakFirst ==
    [][(GlowPush /\ ~inCodeBlock' /\ IndexOfBlank(PushedBuffer, 0) # -1) =>
          LET cut == IndexOfBlank(PushedBuffer, 0) + 2
          IN  /\ ret' = SubSeq(PushedBuffer, 1, cut)
              /\ buffer' = SubSeq(PushedBuffer, cut + 1, Len(PushedBuffer))]_vars

\* A push has returned the blank line and kept a complete horizontal-rule line.
C21_Witness ==
    /\ ret = <<"\n", "\n">>
    /\ buffer = <<"-", "-", "-", "\n">>
    /\ units = <<Unit(1, 2)>>
    /\ ~inCodeBlock

\* A header line as the property words it: one to six # followed by white
\* space; a horizontal rule: three or more of one of - * _ and nothing else.
HeaderOrRule(line) ==
    \/ Run(line, "#") \in 1..6 /\ Len(line) > Run(line, "#")
          /\ IsSpace(line[Run(line, "#") + 1])
    \/ \E ch \in {"-", "*", "_"} : Len(line) >= 3 /\ Run(line, ch) = Len(line)

\* C22 as stated: when after a push no fence is open and the buffer has no
\* paragraph break, the push returns the whole buffer if the buffer ends in
\* a newline and the line before it is a header or a horizontal rule, and
\* otherwise returns null and keeps the whole buffer.
C22_BlockLineFlushesWholeBuffer ==
    [][(GlowPush /\ ~inCodeBlock' /\ IndexOfBlank(PushedBuffer, 0) = -1) =>
          IF /\ Len(PushedBuffer) > 0
             /\ PushedBuffer[Len(PushedBuffer)] = "\n"
             /\ HeaderOrRule(LastLine(PushedBuffer))
            THEN ret' = PushedBuffer /\ buffer' = <<>>
            ELSE ret' = Null /\ buffer' = PushedBuffer]_vars

\* C23: flush returns the whole buffer (null when it is empty), also while a
\* fence is open, and flush and reset leave the four fields as the
\* constructor sets them, so that the pushes that follow start from the
\* state of a new buffer.
C23_FlushAndResetRestoreInitialState ==
    [][(GlowFlush \/ GlowReset) =>
          /\ buffer' = <<>> /\ ~inCodeBlock' /\ codeBlockFence' = <<>>
          /\ lastRenderedLength' = 0
          /\ GlowFlush => ret' = (IF buffer = <<>> THEN Null ELSE buffer)]_vars

\* A flush has returned a text whose fence is still open.
C23_Witness ==
    /\ text = Backticks \o <<"\n", "a">>
    /\ pushed = Len(text)
    /\ ret = text /\ units = <<Unit(1, Len(text))>>
    /\ buffer = <<>> /\ ~inCodeBlock /\ codeBlockFence = <<>> /\ lastRenderedLength = 0

\* C28 as stated: whatever the split into pushes, after a push the open-fence
\* flag is what reading the pushed text line by line gives: a fence
\* delimiter split over two pushes counts, one that is not at the start of a
\* line does not.
C28_FenceFlagIndependentOfChunking ==
    [][GlowPush =>
          inCodeBlock' = (OpenFence(SubSeq(text, 1, pushed'), 0, <<>>) # <<>>)]_vars

\* The text the units returned so far cover.
Covered == IF units = <<>> THEN 0 ELSE units[Len(units)].to

\* C29: the units returned are consecutive spans of the pushed text from its
\* start, each returned value is the text of its span, and the buffer is the
\* rest of the pushed text, so the values returned by the pushes and the
\* final flush concatenate to the text; the scanned length is the buffer
\* length, and the fence style is empty exactly when no fence is open.
C29_LosslessAndFieldsConsistent ==
    /\ \A k \in 1..Len(units) :
         /\ units[k].from = (IF k = 1 THEN 1 ELSE units[k - 1].to + 1)
         /\ units[k].from <= units[k].to
    /\ Covered + Len(buffer) = pushed
    /\ buffer = SubSeq(text, Covered + 1, pushed)
    /\ ret # Null => /\ units # <<>>
                     /\ ret = SubSeq(text, units[Len(units)].from, Covered)
    /\ lastRenderedLength = Len(buffer)
    /\ (codeBlockFence = <<>>) = ~inCodeBlock

\* A push and the flush have returned the whole of a text in two units.
C29_Witness ==
    /\ text = <<"a", "\n", "\n", "a">>
    /\ pushed = Len(text) /\ buffer = <<>>
    /\ units = <<Unit(1, 3), Unit(4, 4)>>
    /\ ret = <<"a">>

-----------------------------------------------------------------------------
(* Properties of replaced instances. *)

\* C24 as stated: the calls of a plugin's wrapped tools are answered by the
\* reloaded instance when the resolution succeeds, also those made while the
\* resolution is in flight: a call that arrives during a resolution is not
\* answered by the pre-wrap executor, and a resolution that succeeds has had
\* no call answered before its reload.
C24_CallsDuringResolutionGoToReloaded ==
    /\ (ev.kind = "call" /\ ~ev.call.first /\ ev.call.overlap)
          => ev.call.by # <<"load", ev.call.i>>
    /\ (ev.kind = "call" /\ ev.call.first /\ ev.call.ok) => ev.call.others = 0

\* The instance registered under a name holds a value at the secret's path.
InjectedIn(name, sd) ==
    /\ MapHas(plugins, name)
    /\ Truthy(ConfigAt(MapGet(plugins, name).plugin.cfg, sd.configPath))

\* The instance registered under a name is the one loadAll wrapped, its
\* wrappers have not resolved yet and the secret is among their pending ones.
StillLazy(name, i, sd) ==
    /\ MapHas(plugins, name)
    /\ MapGet(plugins, name).plugin.id = <<"load", i>>
    /\ wrapped[i] /\ ~resolved[i]
    /\ \E k \in 1..Len(pendingOf[i]) : pendingOf[i][k] = sd

\* C25 as stated: when a reload has replaced a plugin that loadAll wrapped,
\* every declared secret with a stored ciphertext is either injected in the
\* replacement or still pending in wrappers of the replacement, so that the
\* next call of one of its tools decrypts and injects it.
C25_ReplacementKeepsLazyResolution ==
    (ev.kind = "reload" /\ ev.reload.ret /\ wrapped[ev.reload.i]) =>
        \A k \in 1..Len(ModSecrets(ev.reload.i)) :
            LET sd == ModSecrets(ev.reload.i)[k]
            IN  sd.name \in StoredCiphertexts =>
                   \/ InjectedIn(ev.reload.plugin.name, sd)
                   \/ StillLazy(ev.reload.plugin.name, ev.reload.i, sd)

\* C26 as stated: a registration that is disabled when a reload or a lazy
\* resolution replaces it is disabled after the replacement, and its name is
\* not active in the chat client.
C26_ReplacementStaysDisabled ==
    /\ (ev.kind = "reload" /\ ev.reload.ret
          /\ ev.reload.before # NoEntry /\ ~ev.reload.before.enabled)
          => /\ ~MapGet(plugins, ev.reload.plugin.name).enabled
             /\ ev.reload.plugin.name \notin clientActive
    /\ (ev.kind = "call" /\ ev.call.first /\ ev.call.ok
          /\ ev.call.before # NoEntry /\ ~ev.call.before.enabled)
          => /\ ~MapGet(plugins, PluginNameOf(ev.call.i)).enabled
             /\ PluginNameOf(ev.call.i) \notin clientActive

\* The names whose registration is marked enabled.
EnabledNames(m) == { m[k].name : k \in {j \in 1..Len(m) : m[j].enabled} }

\* C27 as stated: with a chat client that never throws, the names active in the
\* client are the names marked enabled whenever no call is in flight: startup
\* without a throw leaves them equal, and a register, unregister, enable or
\* disable call that starts with them equal, and in which the client does not
\* throw, returns with them equal.
C27_ClientActiveIsEnabledNames ==
    [][ (/\ ev'.kind = "api" /\ ~ev'.api.threw
         /\ la.threw = {}
         /\ clientActive = EnabledNames(plugins))
          => clientActive' = EnabledNames(plugins') ]_vars

\* C30 as stated: /plugin reports not found exactly when the manager has no
\* registration under the name, and reports enabled or disabled only when the
\* manager's enable or disable resolved to true.
C30_PluginCommandReportsOutcome ==
    (ev.kind = "api" /\ ev.api.kind \in {"enable", "disable"}) =>
        /\ (ev.api.said = "not found") <=> ~MapHas(ev.api.mapBefore, ev.api.name)
        /\ ev.api.said \in {"enabled", "disabled"} => ev.api.ret = "true"

-----------------------------------------------------------------------------
(* Properties of startup: loadAll and _loadCustomPlugins. *)

PosOf(m, name) == CHOOSE k \in 1..Len(m) : m[k].name = name

ListNames(m) == { List(m)[k].name : k \in 1..Len(List(m)) }

\* Registry entry i is registered with the object loadAll constructed for it.
LoadedBy(i) ==
    /\ PluginNameOf(i) \in ListNames(plugins)
    /\ MapGet(plugins, PluginNameOf(i)).plugin.id = <<"load", i>>

\* The registry loop has dealt with every entry.
LoopOver == la.pc \in {"god", "custom", "customUse", "done"}

C18_GodModeDisabledAfterLoadAll ==
    la.pc = "done" =>
        /\ MapHas(plugins, "god-mode")
        /\ ~MapGet(plugins, "god-mode").enabled

\* The well-formed entries of the persisted list that no later entry of the
\* same name overrides.
RestoredIdx ==
    { k \in 1..Len(customData) :
        /\ customData[k].name # ""
        /\ \A q \in (k + 1)..Len(customData) : customData[q].name # customData[k].name }

\* Every restored entry is registered under its name, in list order, and no
\* malformed entry is registered.
RestoredInOrder ==
    /\ ~MapHas(plugins, "")
    /\ \A k \in RestoredIdx :
         /\ MapHas(plugins, customData[k].name)
         /\ MapGet(plugins, customData[k].name).plugin.id = <<"custom", k>>
    /\ \A k, q \in RestoredIdx :
         (k < q /\ customData[k].name # "god-mode" /\ customData[q].name # "god-mode")
            => PosOf(plugins, customData[k].name) < PosOf(plugins, customData[q].name)

-----------------------------------------------------------------------------
(* Properties of register, unregister, enable and disable, stated at the    *)
(* step in which a call returns (ev.api is that call's final record).       *)

\* A call of the given kind has just returned.
Returned(kind) == ev.kind = "api" /\ ev.api.kind = kind

\* C11 as stated: after register of a named instance the registration is
\* stored under the instance's name and is visible in list().
C11_RegisteredIsListed ==
    (Returned("register") /\ ev.api.name # "") =>
        /\ MapHas(plugins, ev.api.name)
        /\ ev.api.name \in ListNames(plugins)

\* C11: register of a named instance always returns and always leaves a
\* registration of that instance under its name, enabled exactly when
\* activation was asked for and did not throw (so disabled when it threw);
\* the registration is in list() unless the name starts with an underscore.
C11_RegisteredListedUnlessUnderscore ==
    /\ (op.kind = "register" /\ op.pc = "use") => ENABLED RegisterUse
    /\ (Returned("register") /\ ev.api.name # "") =>
        /\ MapHas(plugins, ev.api.name)
        /\ MapGet(plugins, ev.api.name).plugin = ev.api.plugin
        /\ MapGet(plugins, ev.api.name).enabled = (ev.api.wanted /\ ~ev.api.threw)
        /\ (ev.api.name \in ListNames(plugins)) = ~StartsWithUnderscore(ev.api.name)
        /\ \A k \in 1..Len(List(plugins)) :
             List(plugins)[k].name = ev.api.name
                => List(plugins)[k].enabled = (ev.api.wanted /\ ~ev.api.threw)

\* A register whose activation threw has returned: the instance replaced the
\* one registered under its name and is listed as disabled.
C11_Witness ==
    /\ Returned("register") /\ ev.api.threw
    /\ ev.api.name = "my-tools" /\ ev.api.before.plugin.id = <<"custom", 2>>
    /\ MapGet(plugins, "my-tools").plugin = ev.api.plugin
    /\ ~MapGet(plugins, "my-tools").enabled
    /\ "my-tools" \in ListNames(plugins)

\* What disable leaves of the registrations it found: only the enabled flag
\* under the name changes.
DisabledOnly == MapSet(ev.api.mapBefore, ev.api.name, [ev.api.before EXCEPT !.enabled = FALSE])

\* disable of a registered name has returned.
DisableReturned == Returned("disable") /\ MapHas(ev.api.mapBefore, ev.api.name)

\* An enable whose activation succeeded has returned, the call before it was
\* disable of the same name, and nothing changed the registrations between.
EnabledBack ==
    /\ Returned("enable") /\ ev.api.called /\ ev.api.ret = "true"
    /\ ev.api.prev.name = ev.api.name
    /\ ev.api.prev.after = ev.api.mapBefore

\* C12 as stated: disable keeps the registration, and a following enable
\* whose activation succeeds makes list() what it was before the disable.
C12_EnableAfterDisableRestoresList ==
    /\ DisableReturned => plugins = DisabledOnly
    /\ EnabledBack => List(plugins) = List(ev.api.prev.before)

\* C12: disable leaves every registration as it was but for the enabled flag
\* under the name (same instance, version and toolCount), after it getTools()
\* has none of the plugin's tools, and when the plugin was enabled before the
\* disable, a following enable whose activation succeeds makes list() what it
\* was before the disable.
C12_DisableOfEnabledIsUndoneByEnable ==
    /\ DisableReturned =>
        /\ plugins = DisabledOnly
        /\ MapGet(plugins, ev.api.name).plugin = ev.api.before.plugin
        /\ MapGet(plugins, ev.api.name).toolCount = ev.api.before.toolCount
        /\ \A k \in 1..Len(List(plugins)) :
             /\ List(plugins)[k].version = List(ev.api.mapBefore)[k].version
             /\ List(plugins)[k].toolCount = List(ev.api.mapBefore)[k].toolCount
        /\ \A t \in 1..Len(GetTools(plugins)) : GetTools(plugins)[t].plugin # ev.api.name
    /\ (EnabledBack /\ MapGet(ev.api.prev.before, ev.api.name).enabled)
         => List(plugins) = List(ev.api.prev.before)

\* An enable has undone the disable of an enabled plugin that has tools.
C12_Witness ==
    /\ EnabledBack
    /\ ev.api.name = "hustle-bankr"
    /\ MapGet(ev.api.prev.before, "hustle-bankr").enabled
    /\ \E t \in 1..Len(GetTools(ev.api.prev.before)) :
         GetTools(ev.api.prev.before)[t].plugin = "hustle-bankr"
    /\ \A t \in 1..Len(GetTools(ev.api.mapBefore)) :
         GetTools(ev.api.mapBefore)[t].plugin # "hustle-bankr"
    /\ List(plugins) = List(ev.api.prev.before)

\* C13: enable and disable resolve to false exactly when no registration
\* exists under the name, except that enable also resolves to false, leaving
\* the plugin disabled, when activation throws; on a plugin already in the
\* target state either resolves to true without calling the client and
\* without changing the registrations; disable resolves to true even when
\* deactivation throws, and then the plugin is disabled.
C13_EnableDisableResults ==
    /\ Returned("enable") =>
        /\ ev.api.ret \in {"true", "false"}
        /\ (ev.api.ret = "false") = (~MapHas(ev.api.mapBefore, ev.api.name) \/ ev.api.threw)
        /\ ev.api.threw => /\ ~MapGet(plugins, ev.api.name).enabled
                            /\ plugins = ev.api.mapBefore
        /\ ev.api.ret = "true" => MapGet(plugins, ev.api.name).enabled
        /\ (MapHas(ev.api.mapBefore, ev.api.name) /\ ev.api.before.enabled)
             => (ev.api.ret = "true" /\ ~ev.api.called /\ plugins = ev.api.mapBefore)
    /\ Returned("disable") =>
        /\ ev.api.ret \in {"true", "false"}
        /\ (ev.api.ret = "false") = ~MapHas(ev.api.mapBefore, ev.api.name)
        /\ ev.api.ret = "true" => ~MapGet(plugins, ev.api.name).enabled
        /\ (MapHas(ev.api.mapBefore, ev.api.name) /\ ~ev.api.before.enabled)
             => (ev.api.ret = "true" /\ ~ev.api.called /\ plugins = ev.api.mapBefore)
    /\ (op.kind \in {"enable", "disable"} /\ op.pc # "idle") => ENABLED Api

\* An enable whose activation threw has resolved to false.
C13_Witness ==
    /\ Returned("enable") /\ ev.api.threw /\ ev.api.ret = "false"
    /\ MapHas(plugins, ev.api.name) /\ ~MapGet(plugins, ev.api.name).enabled

\* C14: when unregister returns there is no registration under the name and
\* list() omits it, the other registrations are as they were, whether or not
\* the plugin was enabled and whether or not deactivation threw; for a name
\* without a registration nothing changes and the client is not called.
C14_UnregisterRemoves ==
    /\ (op.kind = "unregister" /\ op.pc = "unuse") => ENABLED UnregisterUnuse
    /\ Returned("unregister") =>
        /\ ~MapHas(plugins, ev.api.name)
        /\ ev.api.name \notin ListNames(plugins)
        /\ plugins = SelectSeq(ev.api.mapBefore, LAMBDA e : e.name # ev.api.name)
        /\ ev.api.called = (MapHas(ev.api.mapBefore, ev.api.name) /\ ev.api.before.enabled)
        /\ ~MapHas(ev.api.mapBefore, ev.api.name)
             => (plugins = ev.api.mapBefore /\ ~ev.api.called)

\* An unregister of an enabled plugin has returned although deactivation threw.
C14_Witness ==
    /\ Returned("unregister") /\ ev.api.threw
    /\ ev.api.before.enabled /\ ev.api.name \in ListNames(ev.api.mapBefore)
    /\ ev.api.name \notin ListNames(plugins)

\* The names of list(), in its order.
ListSeq(m) == [k \in 1..Len(List(m)) |-> List(m)[k].name]

\* Insertion order: a name that is present keeps its place, a new one goes last.
Inserted(names, name) ==
    IF StartsWithUnderscore(name) \/ (\E k \in 1..Len(names) : names[k] = name)
      THEN names ELSE Append(names, name)

Removed(names, name) == SelectSeq(names, LAMBDA x : x # name)

\* C15: list() has exactly one entry per registered name that does not start
\* with an underscore, each showing the version (0.0.0 for an instance
\* without one) and toolCount of the instance registered under the name; the
\* order is insertion order: register puts a new name last and replaces the
\* instance of an existing name in place, unregister removes the name, enable
\* and disable move nothing, and a reload removes the name and inserts the
\* new instance's name.
C15_ListIsRegistrationsInInsertionOrder ==
    /\ \A j, k \in 1..Len(List(plugins)) :
         List(plugins)[j].name = List(plugins)[k].name => j = k
    /\ ListNames(plugins) = { n \in Names(plugins) : ~StartsWithUnderscore(n) }
    /\ \A k \in 1..Len(List(plugins)) :
         LET e == MapGet(plugins, List(plugins)[k].name)
         IN  /\ List(plugins)[k].toolCount = Len(e.plugin.tools)
             /\ List(plugins)[k].version =
                    (IF e.plugin.version = "" THEN "0.0.0" ELSE e.plugin.version)
             /\ List(plugins)[k].enabled = e.enabled
    /\ (Returned("register") /\ ev.api.name # "") =>
        /\ MapGet(plugins, ev.api.name).plugin = ev.api.plugin
        /\ ListSeq(plugins) = Inserted(ListSeq(ev.api.mapBefore), ev.api.name)
    /\ Returned("unregister") =>
        ListSeq(plugins) = Removed(ListSeq(ev.api.mapBefore), ev.api.name)
    /\ (Returned("enable") \/ Returned("disable")) =>
        /\ ListSeq(plugins) = ListSeq(ev.api.mapBefore)
        /\ \A k \in 1..Len(plugins) : plugins[k].plugin = ev.api.mapBefore[k].plugin
    /\ ev.kind = "reload" =>
        LET before == [k \in 1..Len(ev.reload.listBefore) |-> ev.reload.listBefore[k].name]
        IN  IF ev.reload.ret
              THEN /\ ListSeq(plugins) =
                        Inserted(Removed(before, ev.reload.pluginName), ev.reload.plugin.name)
                   /\ MapGet(plugins, ev.reload.plugin.name).plugin = ev.reload.plugin
              ELSE ListSeq(plugins) \in {before, Removed(before, ev.reload.pluginName)}

\* A second instance has been registered under a listed name: one entry, in
\* its old place, showing the new instance's version and toolCount.
C15_Witness ==
    /\ Returned("register") /\ ev.api.name = "my-tools"
    /\ ev.api.before.plugin.id = <<"custom", 2>>
    /\ Len(List(plugins)) >= 3
    /\ \E k \in 1..Len(List(plugins)) :
         /\ k < Len(List(plugins))
         /\ List(plugins)[k] = [name |-> "my-tools", version |-> "0.0.0",
                                enabled |-> TRUE, toolCount |-> 2]
         /\ List(ev.api.mapBefore)[k].name = "my-tools"
         /\ List(ev.api.mapBefore)[k].version = "1.0.0"
         /\ List(ev.api.mapBefore)[k].toolCount = 1

\* The registrations getSystemMessage describes: enabled, with tools.
EnabledWithTools(visibleOnly) ==
    { k \in 1..Len(plugins) :
        /\ plugins[k].enabled /\ Len(plugins[k].plugin.tools) > 0
        /\ visibleOnly => ~StartsWithUnderscore(plugins[k].name) }

\* The message names every one of the given registrations and its tools.
Describes(msg, ks) ==
    \A k \in ks : \E j \in 1..Len(msg.sections) :
        /\ msg.sections[j].name = plugins[k].name
        /\ msg.sections[j].tools = plugins[k].plugin.tools

=============================================================================
